---- MODULE Spec2Model ----
(***************************************************************************)
(* Model of the conductor orchestration engine (foundriesio/conductor):    *)
(* the jobserv webhook, the celery tasks it schedules (restart, commit-id  *)
(* resolution, tagging, job dispatch, static deltas) and the LAVA device   *)
(* control-mode lifecycle.                                                 *)
(*                                                                         *)
(* Celery tasks run on a worker pool, so a task is modelled in the steps   *)
(* between which other tasks can run: it loads its Build row into a local  *)
(* object (a snapshot) and later saves the whole object back, as Django's  *)
(* Model.save() does.                                                      *)
(***************************************************************************)
EXTENDS Integers, Sequences, FiniteSets, TLC

(* ------------------------------ bounds -------------------------------- *)
MaxDeliveries == 2
MaxFailedDeliveries == 5
MaxTagInvocations == 4
MaxDeviceOps == 6
MaxDeltaInvocations == 1
MaxPolls == 2
MaxCiBuildId == 4
MaxSignInvocations == 2
MaxNotifications == 2
MaxRequests == 2
MaxPasses == 2

(* ------------------------- program constants -------------------------- *)
MAX_BUILD_RESTARTS == 3
MAX_RETRIES == 3
OTA_DEADLINE == 3

BUILD_TYPE_REGULAR == "REG"
BUILD_TYPE_OTA == "OTA"
BUILD_TYPE_STATIC_DELTA == "SDE"
BUILD_TYPE_CONTAINERS == "CTR"

CONTROL_LAVA == "LAVA"
CONTROL_PDU == "PDU"

JOB_LAVA == "LAVA"
JOB_ASSEMBLE == "ASM"

FIO_UPGRADE_ROLLBACK_MESSAGE == "upgrade/rollback testing"
(* A Python None in a string field, a null foreign key, a null timestamp. *)
(* A timestamp is kept as the time elapsed since it, in periods of the    *)
(* sweep (ten minutes), and no further than one period past the deadline. *)
None == ""
NullPk == 0
NullTime == -1

(* ------------------------------ strings ------------------------------- *)
(* Trigger labels and run names are sequences of the tokens that "-"      *)
(* separates: "platform-main" is <<"platform", "main">>.                  *)

(* Python's `word in label`, at token granularity *)
Contains(label, word) ==
    \E i \in 1..(Len(label) - Len(word) + 1) :
        SubSeq(label, i, i + Len(word) - 1) = word

W_CONTAINERS == <<"containers">>
W_PLATFORM == <<"platform">>
W_STATIC_DELTAS == <<"generate", "static", "deltas">>

(* --------------------------- configuration ---------------------------- *)
Projects == {"p1", "p2"}

(* LAVADeviceType rows: (project, name, architecture) *)
DeviceTypes ==
    { [project |-> "p1", name |-> <<"devA">>, architecture |-> <<"aarch64">>],
      [project |-> "p1", name |-> <<"devB">>, architecture |-> <<"amd64">>],
      [project |-> "p2", name |-> <<"devA">>, architecture |-> <<"aarch64">>] }

(* TestJob rows of the projects' test plans, per device type name *)
TestJobs ==
    { [dev |-> <<"devA">>, name |-> "boot", is_ota_job |-> FALSE,
       is_downgrade_job |-> FALSE, is_static_delta_job |-> FALSE,
       is_assemble_image_job |-> FALSE],
      [dev |-> <<"devA">>, name |-> "ota", is_ota_job |-> TRUE,
       is_downgrade_job |-> FALSE, is_static_delta_job |-> FALSE,
       is_assemble_image_job |-> FALSE],
      [dev |-> <<"devA">>, name |-> "downgrade", is_ota_job |-> TRUE,
       is_downgrade_job |-> TRUE, is_static_delta_job |-> FALSE,
       is_assemble_image_job |-> FALSE],
      [dev |-> <<"devA">>, name |-> "delta", is_ota_job |-> TRUE,
       is_downgrade_job |-> FALSE, is_static_delta_job |-> TRUE,
       is_assemble_image_job |-> FALSE],
      [dev |-> <<"devA">>, name |-> "assemble", is_ota_job |-> FALSE,
       is_downgrade_job |-> FALSE, is_static_delta_job |-> FALSE,
       is_assemble_image_job |-> TRUE] }

(* LAVADevice rows, as far as they never change: the name the LAVA server *)
(* knows the device by, and the names it registers under in the factory   *)
(* and in EL2GO                                                           *)
LavaDevices ==
    { [name |-> "device1", project |-> "p1", device_type |-> <<"devA">>,
       auto_register_name |-> <<"ota_device_1">>, el2go_name |-> "el2go1"],
      [name |-> "device2", project |-> "p1", device_type |-> <<"devA">>,
       auto_register_name |-> <<"ota_device_2">>, el2go_name |-> "el2go2"],
      [name |-> "device3", project |-> "p1", device_type |-> <<"devB">>,
       auto_register_name |-> <<"ota_device_1">>, el2go_name |-> "el2go3"] }

JOB_EL2GO == "EL2GO"
JOB_OTA == "OTA"

(* LAVAJob rows, as far as they never change; prompt is what follows "@"   *)
(* in the first boot prompt of the definition that has one                *)
LavaJobs ==
    { [job_id |-> 1, project |-> "p1", job_type |-> "LAVA",
       requested_device_type |-> <<"devA">>, prompt |-> <<"ota_device_1">>],
      [job_id |-> 2, project |-> "p1", job_type |-> JOB_EL2GO,
       requested_device_type |-> <<"devA">>, prompt |-> <<"ota_device_1">>],
      [job_id |-> 3, project |-> "p1", job_type |-> JOB_OTA,
       requested_device_type |-> <<"devA">>, prompt |-> <<"ota_device_1">>] }

JobIds == {j.job_id : j \in LavaJobs}

(* ------------------------------- state -------------------------------- *)
VARIABLES
    cfg,         \* Project rows: project name -> settings
    builds,      \* Build rows, a sequence indexed by primary key
    tagged,      \* Build pks related to the project's testing BuildTag
    tasks,       \* celery tasks, queued or running, with their local objects
    invocations, \* number of tasks sent directly, not by a callback
    deliveries,  \* jobserv callbacks received so far, in order
    reruns,      \* re-run requests sent to the CI backend (ok: one was accepted)
    maxed,       \* when each Build's restart_counter first reached the maximum
    jobs,        \* jobs submitted to the test-execution backend
    runrows,     \* Run rows: (build, device type, ostree hash)
    devices,     \* LAVADevice rows: name -> (controlled_by, ota_started)
    ops,         \* number of maintenance/online requests made so far
    targets,     \* the targets.json of each factory, as its backend holds it
    signed,      \* the targets.json documents signed and sent to the backend
    polled,      \* the last poll of a static-delta build: status seen, poll re-sent
    lavajobs,    \* LAVAJob rows: job_id -> (status, device)
    notifications, \* process_testjob_notification tasks, queued or running
    received,    \* the testjob events the listener has dispatched, in order
    calls,       \* requests made to the device-fleet and EL2GO backends
    fleet,       \* the devices registered in their factory
    el2go,       \* the devices listed in EL2GO
    api,         \* a call of Project._retrieve_api_request and of its caller
    web,         \* the webhooks: APICallback rows, responses sent, merges sent
    listener     \* the listener manager: LAVABackend ids, its processes, passes

vars == <<cfg, builds, tagged, tasks, invocations, deliveries, reruns, maxed,
          jobs, runrows, devices, ops, targets, signed, polled, lavajobs,
          notifications, received, calls, fleet, el2go, api, web, listener>>

devVars == <<devices, ops>>

signVars == <<targets, signed>>

noteVars == <<lavajobs, notifications, received, calls, fleet, el2go>>

Pks == 1..Len(builds)

(* A Build row as models.Build declares it, with the field defaults *)
NewBuild(pk, url, project, build_id, tag, build_status, build_type, static_from, static_to) ==
    [pk |-> pk, url |-> url, project |-> project, build_id |-> build_id,
     tag |-> tag, build_status |-> build_status, build_type |-> build_type,
     commit_id |-> None, build_reason |-> None, skip_qa |-> FALSE,
     is_merge_commit |-> FALSE, restart_counter |-> 0,
     static_from |-> static_from, static_to |-> static_to]

(* Model.save(): writes every field of the in-memory object to its row *)
Save(rows, obj) == [rows EXCEPT ![obj.pk] = obj]

(* history: the Builds whose restart_counter has reached the maximum, each *)
(* with the number of callbacks received when it first did                *)
MaxedAfter(rows) ==
    maxed \cup {[build |-> pk, at |-> Len(deliveries)] :
                    pk \in {k \in 1..Len(rows) :
                        /\ rows[k].restart_counter >= MAX_BUILD_RESTARTS
                        /\ \A m \in maxed : m.build # k}}

(* ---------------------------- targets.json --------------------------- *)
(* The targets.json of a factory: the version of the signed part, for     *)
(* each target (named by its build number) how often the testing tag is   *)
(* in its list of tags, and the key id and method of the signature.       *)
Meta(version, tags, keyid, method) ==
    [version |-> version, tags |-> tags, keyid |-> keyid, method |-> method]

NoMeta == Meta(0, <<>>, None, None)

(* the change _change_tag is asked for: the Build, and add or remove *)
NoChange == [pk |-> NullPk, add |-> FALSE]

(* ------------------------------- tasks -------------------------------- *)
Sig(name, build, run, run_url) ==
    [name |-> name, build |-> build, run |-> run, run_url |-> run_url]

(* a task of delivery wf made from signature sg; rest is what the chain    *)
(* runs once this task has returned                                       *)
Task(id, wf, sg, rest, retries) ==
    [id |-> id, wf |-> wf, name |-> sg.name, build |-> sg.build,
     run |-> sg.run, run_url |-> sg.run_url, rest |-> rest,
     retries |-> retries, pc |-> "queued", snap |-> (NewBuild(NullPk, <<>>, None, 0, None, None, None, NullPk, NullPk)), prev |-> NullPk,
     old |-> {}, meta |-> NoMeta, what |-> NoChange]

(* the id of the next task of delivery wf: above those of its live tasks *)
NextId(wf) ==
    LET ids == {t.id : t \in {x \in tasks : x.wf = wf}}
    IN  IF ids = {} THEN 1 ELSE 1 + (CHOOSE m \in ids : \A i \in ids : i <= m)

(* delay()/apply_async() of the signatures sigs (a sequence), ids from id0 *)
Enqueue(sigs, wf, rest, id0) ==
    {Task(id0 + i - 1, wf, sigs[i], rest, 0) : i \in 1..Len(sigs)}

(* a task has returned: celery sends the next stage of its chain *)
Continue(t, id0) ==
    IF t.rest = <<>> THEN {}
    ELSE Enqueue(Head(t.rest), t.wf, Tail(t.rest), id0)

(* ------------------------- jobserv webhook ---------------------------- *)
(* url.split("/")[4]: a build URL is the pair (project name, number) *)
ProjectOfUrl(url) == url[1]

IsBuildTrigger(trigger_name) ==
    \/ Contains(trigger_name, W_CONTAINERS)
    \/ Contains(trigger_name, W_PLATFORM)
    \/ Contains(trigger_name, W_STATIC_DELTAS)

(* trigger_name.split("-")[1], but for static deltas *)
build_branch(trigger_name) ==
    IF ~Contains(trigger_name, W_STATIC_DELTAS) THEN trigger_name[2]
    ELSE None

(* the classification without the Containers case *)
build_type_NoContainers(trigger_name) ==
    IF Contains(trigger_name, W_STATIC_DELTAS) THEN BUILD_TYPE_STATIC_DELTA
    ELSE BUILD_TYPE_REGULAR

build_type(trigger_name) ==
    IF Contains(trigger_name, W_CONTAINERS) THEN BUILD_TYPE_CONTAINERS
    ELSE IF Contains(trigger_name, W_STATIC_DELTAS) THEN BUILD_TYPE_STATIC_DELTA
    ELSE BUILD_TYPE_REGULAR

(* the rows Build.objects.get_or_create(url=, project=, build_id=, tag=)   *)
(* looks up                                                                *)
Lookup(rows, url, project, build_id, tag) ==
    {pk \in 1..Len(rows) :
        /\ rows[pk].url = url
        /\ rows[pk].project = project
        /\ rows[pk].build_id = build_id
        /\ rows[pk].tag = tag}

(* the create without the get *)
get_or_create_Create(rows, url, project, build_id, tag, status, type) ==
    Append(rows, NewBuild(Len(rows) + 1, url, project, build_id, tag,
                          status, type, NullPk, NullPk))

get_or_create(rows, url, project, build_id, tag, status, type) ==
    IF Lookup(rows, url, project, build_id, tag) = {}
    THEN Append(rows, NewBuild(Len(rows) + 1, url, project, build_id, tag,
                               status, type, NullPk, NullPk))
    ELSE rows

(* device-type names the runs of a callback stand for *)
ArchOf(run_name) == SubSeq(run_name, 2, Len(run_name))

(* the device types of the project, whatever their architecture *)
DevNamesOfRun_AnyArch(b, run) ==
    IF b.build_type = BUILD_TYPE_CONTAINERS
    THEN IF Len(run.name) > 1
         THEN {d.name : d \in {x \in DeviceTypes : x.project = b.project}}
         ELSE {}
    ELSE {run.name}

DevNamesOfRun(b, run) ==
    IF b.build_type = BUILD_TYPE_CONTAINERS
    THEN IF Len(run.name) > 1
         THEN {d.name : d \in {x \in DeviceTypes :
                    x.project = b.project /\ x.architecture = ArchOf(run.name)}}
         ELSE {}
    ELSE {run.name}

(* one ordering of a set, as the rows of an unordered query come back *)
SeqOf(S) == CHOOSE q \in [1..Cardinality(S) -> S] :
                \A x \in S : \E i \in 1..Cardinality(S) : q[i] = x

RECURSIVE DevNames(_, _, _)
DevNames(b, runs, i) ==
    IF i > Len(runs) THEN <<>>
    ELSE SeqOf(DevNamesOfRun(b, runs[i])) \o DevNames(b, runs, i + 1)

TestsTriggered(p, trigger_name) ==
    \/ /\ Contains(trigger_name, W_PLATFORM)
       /\ Contains(trigger_name, <<cfg[p].default_branch>>)
    \/ Contains(trigger_name, W_CONTAINERS)

(* update_build_commit_id | tag_build_runs | group(create_build_run...) *)
Workflow(b, runs) ==
    LET names == DevNames(b, runs, 1)
        run_url == runs[Len(runs)].url
        group == [i \in 1..Len(names) |->
                    Sig("create_build_run", b.pk, names[i], <<>>)]
    IN  [first |-> <<Sig("update_build_commit_id", b.pk, <<>>, run_url)>>,
         rest |-> << <<Sig("tag_build_runs", b.pk, <<>>, <<>>)>>, group >>]

(* Project.secret *)
Secret(p) == <<"secret", p>>

(* hmac.new(key, msg=body, digestmod="sha256").hexdigest(): equal digests  *)
(* come from equal keys and bodies only                                   *)
hmac(key, body) == [key |-> key, body |-> body]

(* a signature header: absent, or a value with or without the ":" that    *)
(* separates the digest                                                    *)
Header(present, colon, digest) ==
    [present |-> present, colon |-> colon, digest |-> digest]

(* the header jobserv sends with body e *)
Signature(e) == Header(TRUE, TRUE, hmac(Secret(ProjectOfUrl(e.url)), e))

(* the response __verify_header_auth returns, 0 when it returns the body *)
verify_header_auth(header, e) ==
    IF ~header.present THEN 403
    ELSE IF ProjectOfUrl(e.url) \notin Projects THEN 404
    ELSE IF ~header.colon THEN 500  \* header_token.split(":", 1)[1]: IndexError
    ELSE IF header.digest # hmac(Secret(ProjectOfUrl(e.url)), e) THEN 403
    ELSE 0

(* a request to endpoint has been answered with code; stored: after an    *)
(* APICallback row of it was created                                      *)
Answered(endpoint, header, body, code, stored) ==
    [web EXCEPT !.log = Append(@, [endpoint |-> endpoint, header |-> header,
                                   body |-> body, code |-> code]),
                !.callbacks = IF stored THEN Append(@, endpoint) ELSE @]

(* the status test that lets every callback through *)
NotPassed_Never(e) == FALSE

(* `if build_status != "PASSED":` *)
NotPassed(e) == e.status # "PASSED"

(* the view, for a request with this header and body; seen is the Build   *)
(* table as the lookup of Build.objects.get_or_create read it: the table  *)
(* itself when nothing came between the lookup and the rest of the view   *)
process_jobserv_webhook(header, e, seen) ==
    LET p == ProjectOfUrl(e.url)
        denied == verify_header_auth(header, e)
        wf == Len(deliveries) + 1
        trigger == IsBuildTrigger(e.trigger_name)
        \* trigger_name.split("-")[1] of a name without "-": IndexError
        nobranch == /\ trigger
                    /\ ~Contains(e.trigger_name, W_STATIC_DELTAS)
                    /\ Len(e.trigger_name) < 2
        tag == build_branch(e.trigger_name)
        \* get_or_create: the get sees the rows of `seen`, the create
        \* inserts into the table as it is by then
        found == Lookup(seen, e.url, p, e.build_id, tag)
        got == get_or_create(seen, e.url, p, e.build_id, tag, e.status,
                             build_type(e.trigger_name))
        created == Len(got) > Len(seen)
        pk == IF created THEN Len(builds) + 1 ELSE CHOOSE k \in found : TRUE
        rows == IF created
                THEN Append(builds, [got[Len(got)] EXCEPT !.pk = pk])
                ELSE builds
        b == [(IF created THEN rows[pk] ELSE seen[pk])
                EXCEPT !.build_status = e.status]
        saved == Save(rows, b)
        w == Workflow(b, e.runs)
        \* the request is answered and no longer in flight
        this == [header |-> header, body |-> e, seen |-> seen]
        at == {k \in 1..Len(web.pending) : web.pending[k] = this}
        Respond(code, stored) ==
            [Answered("jobserv", header, e, code, stored) EXCEPT !.pending =
                IF at = {} THEN @
                ELSE LET k == CHOOSE x \in at : TRUE
                     IN  SubSeq(@, 1, k - 1) \o SubSeq(@, k + 1, Len(@))]
    IN  /\ deliveries' = Append(deliveries, e)
        /\ IF denied # 0
           THEN \* the response of __verify_header_auth, no APICallback yet
                /\ web' = Respond(denied, FALSE)
                /\ UNCHANGED <<builds, tasks, invocations, maxed>>
           ELSE IF ~trigger
           THEN \* "in case build is not created, exit gracefully"
                /\ web' = Respond(200, TRUE)
                /\ UNCHANGED <<builds, tasks, invocations, maxed>>
           ELSE IF nobranch \/ Cardinality(found) > 1
           THEN \* IndexError or MultipleObjectsReturned: the view raises
                /\ web' = Respond(500, TRUE)
                /\ UNCHANGED <<builds, tasks, invocations, maxed>>
           ELSE /\ builds' = saved
                /\ maxed' = MaxedAfter(saved)
                /\ IF NotPassed(e)
                   THEN /\ tasks' = tasks \cup Enqueue(
                               <<Sig("restart_failed_runs", pk, <<>>, <<>>)>>,
                               wf, <<>>, NextId(wf))
                        /\ web' = Respond(200, TRUE)
                        /\ UNCHANGED invocations
                   ELSE IF Contains(e.trigger_name, W_STATIC_DELTAS)
                   THEN /\ tasks' = tasks \cup Enqueue(
                               <<Sig("schedule_static_delta", pk, <<>>, <<>>)>>,
                               wf, <<>>, NextId(wf))
                        /\ web' = Respond(201, TRUE)
                        /\ UNCHANGED invocations
                   ELSE IF TestsTriggered(p, e.trigger_name)
                   THEN /\ tasks' = IF Len(e.runs) > 0
                                    THEN tasks \cup Enqueue(w.first, wf, w.rest, NextId(wf))
                                    ELSE tasks
                        /\ web' = Respond(201, TRUE)
                        /\ UNCHANGED invocations
                   ELSE /\ web' = Respond(200, TRUE)
                        /\ UNCHANGED <<tasks, invocations>>
        /\ UNCHANGED <<cfg, tagged, reruns, jobs, runrows, devVars, signVars, polled, noteVars, api,
                       listener>>

(* -------------------------- GitHub webhook ---------------------------- *)
(* the APICallback is created first; 403 without a project whose         *)
(* fio_lmp_manifest_url is the repository, or without a header; else a    *)
(* merge is sent for each such project whose secret gives the header      *)
process_github_webhook(header, payload) ==
    LET projects == {p \in Projects : payload.repository = "example/repository"}
        denied == projects = {} \/ ~header.present
        matching == {p \in projects :
                        header = Header(TRUE, FALSE, hmac(Secret(p), payload))}
    IN  /\ web' = [Answered("github", header, payload,
                            IF denied THEN 403 ELSE 200, TRUE)
                     EXCEPT !.merges = IF denied THEN @ ELSE @ \o SeqOf(matching)]
        /\ UNCHANGED <<cfg, builds, tagged, tasks, invocations, deliveries, reruns,
                       maxed, jobs, runrows, devVars, signVars, polled, noteVars,
                       api, listener>>

(* ------------------------ restart_failed_runs ------------------------- *)
(* build = Build.objects.get(pk=build_id): the task's own copy of the row, *)
(* taken when the task starts and written back whole by a later save()    *)
LoadBuild(t) ==
    /\ t.name \in {"restart_failed_runs", "update_build_commit_id",
                   "update_build_reason"}
    /\ t.pc = "queued"
    /\ tasks' = (tasks \ {t}) \cup {[t EXCEPT !.pc = "loaded",
                                              !.snap = builds[t.build]]}
    /\ UNCHANGED <<cfg, builds, tagged, invocations, deliveries, reruns, maxed,
                   jobs, runrows, devVars, signVars, polled, noteVars, api, web, listener>>

(* the guard without the bound on the counter *)
RestartAllowed_Unbounded(b) == cfg[b.project].restart_failed_builds

RestartAllowed(b) ==
    /\ b.restart_counter < MAX_BUILD_RESTARTS
    /\ cfg[b.project].restart_failed_builds

(* the loop over the runs of the callback, then the save of the counter;  *)
(* ok is the set of runs for which restart_ci_run returns True            *)
RestartRuns(t, ok) ==
    LET runs == deliveries[t.wf].runs
        failed == {i \in 1..Len(runs) : runs[i].status # "PASSED"}
        asked == IF RestartAllowed(t.snap) THEN failed ELSE {}
        restarted == asked \cap ok # {}
        rows == IF restarted
                THEN Save(builds, [t.snap EXCEPT
                        !.restart_counter = t.snap.restart_counter + 1])
                ELSE builds
    IN  /\ t.name = "restart_failed_runs" /\ t.pc = "loaded"
        /\ reruns' = reruns \cup
              {[wf |-> t.wf, build |-> t.build, run |-> runs[i].url,
                ok |-> restarted] : i \in asked}
        /\ builds' = rows
        /\ maxed' = MaxedAfter(rows)
        /\ tasks' = tasks \ {t}
        /\ UNCHANGED <<cfg, tagged, invocations, deliveries, jobs, runrows, devVars, signVars, polled, noteVars, api, web, listener>>

(* ----------------- update_build_commit_id and reason ------------------ *)
GIT_SHA(run_url) ==
    IF run_url = <<"run", 0>> THEN None
    ELSE IF run_url = <<"run", 5>> THEN "skipsha"
    ELSE "sha"

(* what the git repositories answer for a commit id: the commit with its  *)
(* message (does its first 127 characters carry the rollback message,     *)
(* does it carry a skip-qa marker, is it a merge), the commit only in the *)
(* meta-subscriber repository, in neither, or gitdb.exc.BadName           *)
Git(kind, rollback, skip, merge) ==
    [kind |-> kind, rollback |-> rollback, skip |-> skip, merge |-> merge]

ReasonOf(out) ==
    IF out.rollback THEN FIO_UPGRADE_ROLLBACK_MESSAGE ELSE "commit message"

RollbackIn(reason) == reason = FIO_UPGRADE_ROLLBACK_MESSAGE

(* the commit-id test that lets any build through *)
HasCommit_Always(b) == TRUE

(* `if build.commit_id:` *)
HasCommit(b) == b.commit_id # None

(* the reclassification that makes the build a static-delta one *)
Reclassified_Delta(b) == [b EXCEPT !.build_type = BUILD_TYPE_STATIC_DELTA]

(* `build.build_type = Build.BUILD_TYPE_OTA` *)
Reclassified(b) == [b EXCEPT !.build_type = BUILD_TYPE_OTA]

(* _update_build_reason(build): the object after the call, whether it was *)
(* saved, and whether tag_build_runs was sent                             *)
_update_build_reason(b, out) ==
    LET untouched == [obj |-> b, saved |-> FALSE, tag |-> FALSE]
        found == [b EXCEPT !.build_reason = ReasonOf(out),
                           !.skip_qa = b.skip_qa \/ out.skip,
                           !.is_merge_commit = b.is_merge_commit \/ out.merge]
        meta == IF cfg[b.project].default_meta_branch # None
                THEN IF out.kind = "meta"
                     THEN [b EXCEPT !.build_reason = ReasonOf(out),
                                    !.skip_qa = b.skip_qa \/ out.skip]
                     ELSE [b EXCEPT !.build_reason = "Trigerred from unknown source"]
                ELSE [b EXCEPT !.build_reason = "Trigerred from meta-sub"]
        b1 == IF out.kind = "commit" THEN found ELSE meta
        b2 == IF RollbackIn(b1.build_reason)
              THEN Reclassified(b1)
              ELSE b1
    IN  IF b.build_reason # None THEN untouched
        ELSE IF ~HasCommit(b) \/ out.kind = "badname" THEN untouched
        ELSE [obj |-> b2, saved |-> TRUE,
              tag |-> /\ ~RollbackIn(b1.build_reason)
                      /\ cfg[b.project].apply_tag_to_first_build_only]

(* update_build_commit_id after the GET of .rundef.json answered: ok      *)
(* says whether with status 200                                           *)
UpdateCommitId(t, ok, out) ==
    LET b1 == [t.snap EXCEPT !.commit_id = GIT_SHA(t.run_url)]
        r == _update_build_reason(b1, out)
        rows == IF r.saved THEN Save(Save(builds, b1), r.obj)
                ELSE Save(builds, b1)
        fresh == rows[t.build]
        \* `ROLLBACK_MESSAGE not in build.build_reason` on a None reason
        raises == /\ ~fresh.skip_qa
                  /\ fresh.build_type \in {BUILD_TYPE_REGULAR, BUILD_TYPE_OTA}
                  /\ fresh.build_reason = None
        delta == IF /\ ~fresh.skip_qa
                    /\ fresh.build_type \in {BUILD_TYPE_REGULAR, BUILD_TYPE_OTA}
                    /\ RollbackIn(fresh.build_reason)
                 THEN <<Sig("create_static_delta_build", t.build, <<>>, <<>>)>>
                 ELSE <<>>
        sent == (IF r.tag THEN <<Sig("tag_build_runs", t.build, <<>>, <<>>)>> ELSE <<>>) \o delta
    IN  /\ t.name = "update_build_commit_id" /\ t.pc = "loaded"
        /\ IF ~ok
           THEN \* no commit id; the task returns and the chain goes on
                /\ tasks' = (tasks \ {t}) \cup Continue(t, NextId(t.wf))
                /\ UNCHANGED invocations
                /\ UNCHANGED <<builds, maxed>>
           ELSE IF raises
           THEN \* TypeError inside transaction.atomic(): rolled back, and
                \* the chain stops with the failed task
                /\ tasks' = tasks \ {t}
                /\ UNCHANGED <<builds, maxed, invocations>>
           ELSE /\ builds' = rows
                /\ maxed' = MaxedAfter(rows)
                /\ tasks' = (tasks \ {t})
                        \cup Enqueue(sent, t.wf, <<>>, NextId(t.wf))
                        \cup Continue(t, NextId(t.wf) + Len(sent))
                /\ UNCHANGED invocations
        /\ UNCHANGED <<cfg, tagged, deliveries, reruns, jobs, runrows, devVars, signVars, polled, noteVars, api, web, listener>>

(* the update_build_reason task that create_build_run sends *)
UpdateBuildReason(t, out) ==
    LET r == _update_build_reason(t.snap, out)
        rows == IF r.saved THEN Save(builds, r.obj) ELSE builds
        sent == (IF r.tag THEN <<Sig("tag_build_runs", t.build, <<>>, <<>>)>> ELSE <<>>)
    IN  /\ t.name = "update_build_reason" /\ t.pc = "loaded"
        /\ builds' = rows
        /\ maxed' = MaxedAfter(rows)
        /\ tasks' = (tasks \ {t}) \cup Enqueue(sent, t.wf, <<>>, NextId(t.wf))
        /\ UNCHANGED invocations
        /\ UNCHANGED <<cfg, tagged, deliveries, reruns, jobs, runrows, devVars, signVars, polled, noteVars, api, web, listener>>

(* --------------------------- tag_build_runs --------------------------- *)
(* the previous build looked up across all projects *)
PreviousBuilds_AnyProject(rows, b, types) ==
    LET below == {pk \in 1..Len(rows) :
                    /\ rows[pk].build_id < b.build_id
                    /\ rows[pk].tag = b.tag
                    /\ rows[pk].build_type \in types}
    IN  {pk \in below : \A o \in below : rows[o].build_id <= rows[pk].build_id}

(* _retrieve_previous_build: the rows with the highest build_id below the *)
(* build's, on its project and branch, of the given types                 *)
PreviousBuilds(rows, b, types) ==
    LET below == {pk \in 1..Len(rows) :
                    /\ rows[pk].project = b.project
                    /\ rows[pk].build_id < b.build_id
                    /\ rows[pk].tag = b.tag
                    /\ rows[pk].build_type \in types}
    IN  {pk \in below : \A o \in below : rows[o].build_id <= rows[pk].build_id}

(* the guards without the one on the upgrade/rollback message *)
TagSkipped_NoRollback(b) ==
    \/ b.skip_qa
    \/ ~cfg[b.project].apply_testing_tag_on_callback
    \/ cfg[b.project].testing_tag = None

(* the guards that make tag_build_runs return without tagging *)
TagSkipped(b) ==
    \/ b.skip_qa
    \/ ~cfg[b.project].apply_testing_tag_on_callback
    \/ cfg[b.project].testing_tag = None
    \/ /\ b.build_reason # None
       /\ RollbackIn(b.build_reason)
       /\ cfg[b.project].apply_tag_to_first_build_only

(* old_tagged_builds: tagged builds of the project below the previous one *)
OldTaggedBuilds(b) ==
    LET prev == PreviousBuilds(builds, b, ({BUILD_TYPE_REGULAR, BUILD_TYPE_OTA, BUILD_TYPE_STATIC_DELTA,
                                            BUILD_TYPE_CONTAINERS}))
    IN  IF prev = {} THEN {}
        ELSE {pk \in Pks :
                /\ builds[pk].project = b.project
                /\ pk \in tagged
                /\ \E q \in prev : builds[pk].build_id < builds[q].build_id}

(* tag_build_runs up to the evaluation of the old_tagged_builds query *)
TagBegin(t) ==
    LET b == builds[t.build]
    IN  /\ t.name = "tag_build_runs" /\ t.pc = "queued"
        /\ IF TagSkipped(b)
           THEN /\ tasks' = (tasks \ {t}) \cup Continue(t, NextId(t.wf))
                /\ UNCHANGED invocations
           ELSE /\ tasks' = (tasks \ {t}) \cup
                        {[t EXCEPT !.pc = "untag", !.old = OldTaggedBuilds(b)]}
                /\ UNCHANGED invocations
        /\ UNCHANGED <<cfg, builds, tagged, deliveries, reruns, maxed, jobs,
                       runrows, devVars, signVars, polled, noteVars, api, web, listener>>

(* `if not build.project.privkey` / `if not build.project.keyid` *)
KeyMissing(p) == cfg[p].privkey = None \/ cfg[p].keyid = None

(* the signing that takes a key of any type for an Ed25519 key *)
SigMethod_AnyKey(key) == "ed25519"

(* the method _change_tag signs with: by the type of the loaded key, None *)
(* when it is neither an Ed25519PrivateKey nor an RSAPrivateKey           *)
SigMethod(key) ==
    IF key = "ed25519" THEN "ed25519"
    ELSE IF key = "rsa" THEN "rsassa-pss-sha256"
    ELSE None

(* the loop over the targets: the tag appended to, or removed once from,  *)
(* the tags of the target whose version is the build number; then the     *)
(* version raised and the key id set                                      *)
Changed(meta, build_id, add, keyid) ==
    [meta EXCEPT
        !.tags = [n \in DOMAIN meta.tags |->
                    IF n # build_id THEN meta.tags[n]
                    ELSE IF add THEN meta.tags[n] + 1
                    ELSE IF meta.tags[n] > 0 THEN meta.tags[n] - 1
                    ELSE 0],
        !.version = meta.version + 1,
        !.keyid = keyid]

(* build.buildtag_set.add(tag) / .remove(oldtag) *)
Related(pk, add) == IF add THEN tagged \cup {pk} ELSE tagged \ {pk}

(* what is left of tag_build_runs after _add_tag / _remove_tag of c *)
AfterChange(t, c) ==
    IF c.add THEN Continue(t, NextId(t.wf))
    ELSE {[t EXCEPT !.pc = "untag", !.old = t.old \ {c.pk},
                    !.meta = NoMeta, !.what = NoChange]}

(* the turn of tag_build_runs: the old tagged builds first, then the build *)
NextChange(t, c) ==
    /\ t.name = "tag_build_runs" /\ t.pc = "untag"
    /\ \/ ~c.add /\ c.pk \in t.old
       \/ c.add /\ t.old = {} /\ c.pk = t.build

(* _remove_tag(old_tagged_build, testing_buildtag), one turn of the loop, *)
(* for a project without a signing key: _change_tag returns at once       *)
TagRemove(t, o) ==
    LET c == [pk |-> o, add |-> FALSE]
    IN  /\ NextChange(t, c)
        /\ KeyMissing(builds[o].project)
        /\ tagged' = Related(o, FALSE)
        /\ tasks' = (tasks \ {t}) \cup AfterChange(t, c)
        /\ UNCHANGED <<cfg, builds, invocations, deliveries, reruns, maxed, jobs,
                       runrows, devVars, signVars, polled, noteVars, api, web, listener>>

(* _add_tag(build, testing_buildtag), after the loop, for a project       *)
(* without a signing key                                                  *)
TagAdd(t) ==
    LET c == [pk |-> t.build, add |-> TRUE]
    IN  /\ NextChange(t, c)
        /\ KeyMissing(builds[t.build].project)
        /\ tagged' = Related(t.build, TRUE)
        /\ tasks' = (tasks \ {t}) \cup AfterChange(t, c)
        /\ UNCHANGED <<cfg, builds, invocations, deliveries, reruns, maxed, jobs,
                       runrows, devVars, signVars, polled, noteVars, api, web, listener>>

(* _change_tag up to the answer to the GET of targets.json: got says      *)
(* whether it came with a document                                        *)
ChangeTagFetch(t, c, got) ==
    LET p == builds[c.pk].project
    IN  /\ NextChange(t, c)
        /\ ~KeyMissing(p)
        /\ IF got
           THEN /\ tasks' = (tasks \ {t}) \cup
                        {[t EXCEPT !.pc = "fetched", !.meta = targets[p],
                                   !.what = c]}
                /\ UNCHANGED tagged
           ELSE \* "Empty targets JSON received"
                /\ tagged' = Related(c.pk, c.add)
                /\ tasks' = (tasks \ {t}) \cup AfterChange(t, c)
        /\ UNCHANGED <<cfg, builds, invocations, deliveries, reruns, maxed, jobs,
                       runrows, devVars, signVars, polled, noteVars, api, web, listener>>

(* the rest of _change_tag and of its caller: the document changed,       *)
(* signed and PUT with the checksum of the one fetched; accepted says     *)
(* whether the backend takes it, which it does when the checksum is that  *)
(* of the targets.json it holds                                           *)
ChangeTagPublish(t, accepted) ==
    LET c == t.what
        p == builds[c.pk].project
        method == SigMethod(cfg[p].privkey)
        doc == [Changed(t.meta, builds[c.pk].build_id, c.add, cfg[p].keyid)
                    EXCEPT !.method = method]
    IN  /\ t.name = "tag_build_runs" /\ t.pc = "fetched"
        /\ t.meta = targets[p] => accepted
        /\ IF method = None
           THEN \* "targets.json is not signed."
                UNCHANGED <<targets, signed>>
           ELSE /\ signed' = signed \cup {[project |-> p, doc |-> doc]}
                /\ targets' = IF accepted THEN [targets EXCEPT ![p] = doc]
                              ELSE targets
        /\ tagged' = Related(c.pk, c.add)
        /\ tasks' = (tasks \ {t}) \cup AfterChange(t, c)
        /\ UNCHANGED <<cfg, builds, invocations, deliveries, reruns, maxed, jobs,
                       runrows, devVars, polled, noteVars, api, web, listener>>

(* -------------------------- create_build_run -------------------------- *)
Template(job, job_type, lcl) ==
    [name |-> job.name, job_type |-> job_type, build |-> lcl]

PlanJobs(run_name) == {j \in TestJobs : j.dev = run_name}

(* the templates list of create_build_run for build b; prev is the        *)
(* previous platform build or NullPk                                      *)
Templates(b, run_name, prev) ==
    LET plan == PlanJobs(run_name)
        regular ==
            IF b.build_type = BUILD_TYPE_REGULAR
            THEN {Template(j, JOB_LAVA, b.pk) : j \in {x \in plan :
                    ~x.is_ota_job /\ ~x.is_static_delta_job}}
            ELSE {}
        ota ==
            IF b.build_type \in {BUILD_TYPE_OTA, BUILD_TYPE_CONTAINERS}
            THEN {Template(j, JOB_LAVA, prev) : j \in {x \in plan :
                    x.is_ota_job /\ ~x.is_downgrade_job /\ ~x.is_static_delta_job}}
            ELSE {}
        assemble ==
            IF b.build_type = BUILD_TYPE_CONTAINERS
            THEN {Template(j, JOB_ASSEMBLE, b.pk) : j \in {x \in plan :
                    x.is_assemble_image_job}}
            ELSE {}
    IN  regular \cup ota \cup assemble

DowngradeTemplates(b, run_name) ==
    IF b.build_type \in {BUILD_TYPE_OTA, BUILD_TYPE_CONTAINERS}
    THEN {Template(j, JOB_LAVA, b.pk) : j \in {x \in PlanJobs(run_name) :
            x.is_ota_job /\ x.is_downgrade_job /\ ~x.is_static_delta_job}}
    ELSE {}

(* the templates that get through whether or not the hash is there *)
Submitted_AnyHash(templates, hashes) ==
    {tp \in templates : tp.build # NullPk}

(* the templates _submit_lava_templates gets through: those bound to a    *)
(* build and whose ostree hash (hashes[name]) is there                    *)
Submitted(templates, hashes) ==
    {tp \in templates : tp.build # NullPk /\ hashes[tp.name] # None}

(* an assemble template when the build has no previous Regular build:     *)
(* previous_build.url raises AttributeError                               *)
AssembleRaises(rows, templates, b) ==
    \E tp \in templates :
        /\ tp.build # NullPk
        /\ tp.job_type = JOB_ASSEMBLE
        /\ PreviousBuilds(rows, b, {BUILD_TYPE_REGULAR}) = {}

(* the job submitted for template tp by _submit_lava_templates: of is the *)
(* build under test, target the build the device ends on                 *)
Job(t, of, tp, target, dev) ==
    [wf |-> t.wf, by |-> t.name, of |-> of,
     of_commit |-> builds[of].commit_id,
     name |-> tp.name, job_type |-> tp.job_type, build |-> tp.build,
     build_commit |-> builds[tp.build].commit_id, ota_target |-> target,
     dev |-> dev]

RunRow(tp, dev, hashes) ==
    [build |-> tp.build, dev |-> dev, ostree_hash |-> hashes[tp.name]]

TemplateNames == {j.name : j \in TestJobs}

(* create_build_run(build_id, run_name): hashes is what the artifact      *)
(* store answers for each template's ostree hash, prev the row the        *)
(* previous-build query returns                                           *)
CreateBuildRun(t, hashes, prev) ==
    LET b == builds[t.build]
        known == \E d \in DeviceTypes : d.name = t.run /\ d.project = b.project
        skipped == \/ b.skip_qa
                   \/ /\ ~b.is_merge_commit
                      /\ b.build_type = BUILD_TYPE_REGULAR
                      /\ cfg[b.project].test_on_merge_only
                   \/ ~known
        templates == Templates(b, t.run, prev)
        first == Submitted(templates, hashes)
        second == IF prev # NullPk
                  THEN Submitted(DowngradeTemplates(b, t.run), hashes)
                  ELSE {}
    IN  /\ t.name = "create_build_run" /\ t.pc = "queued"
        \* countdown=60: a retry runs once the update_build_reason tasks of
        \* its delivery have been taken up and have returned
        /\ t.retries > 0 =>
              ~\E r \in tasks : r.wf = t.wf /\ r.name = "update_build_reason"
        /\ prev \in (IF PreviousBuilds(builds, b, {BUILD_TYPE_REGULAR, BUILD_TYPE_OTA}) = {}
                     THEN {NullPk}
                     ELSE PreviousBuilds(builds, b, {BUILD_TYPE_REGULAR, BUILD_TYPE_OTA}))
        /\ IF b.build_reason = None
           THEN \* update_build_reason.delay(); raise self.retry(countdown=60)
                /\ tasks' = (tasks \ {t})
                     \cup Enqueue(<<Sig("update_build_reason", t.build, <<>>, <<>>)>>,
                                  t.wf, <<>>, NextId(t.wf))
                     \cup (IF t.retries < MAX_RETRIES
                           THEN {[t EXCEPT !.retries = t.retries + 1]}
                           ELSE {})
                /\ UNCHANGED invocations
                /\ UNCHANGED <<jobs, runrows>>
           ELSE /\ tasks' = (tasks \ {t}) \cup
                     (IF ~skipped /\ AssembleRaises(builds, templates, b)
                      THEN \* the task ends in the state FAILURE
                           {[t EXCEPT !.pc = "raised"]}
                      ELSE {})
                /\ UNCHANGED invocations
                /\ IF skipped
                   THEN UNCHANGED <<jobs, runrows>>
                   ELSE IF AssembleRaises(builds, templates, b)
                   THEN \* the templates handled before the assemble one
                        \E done \in SUBSET {tp \in first : tp.job_type # JOB_ASSEMBLE} :
                            /\ jobs' = jobs \cup {Job(t, b.pk, tp, b.pk, t.run) : tp \in done}
                            /\ runrows' = runrows \cup
                                    {RunRow(tp, t.run, hashes) : tp \in done}
                   ELSE /\ jobs' = jobs
                            \cup {Job(t, b.pk, tp, b.pk, t.run) : tp \in first}
                            \cup {Job(t, b.pk, tp, prev, t.run) : tp \in second}
                        /\ runrows' = runrows \cup
                            {RunRow(tp, t.run, hashes) : tp \in first \cup second}
        /\ UNCHANGED <<cfg, builds, tagged, deliveries, reruns, maxed, devVars, signVars, polled, noteVars, api, web, listener>>

(* ------------------------ static delta builds ------------------------ *)
(* the rows get_or_create looks up in create_static_delta_build: every    *)
(* keyword is part of the lookup                                          *)
LookupDelta(rows, url, project, build_id, from, to) ==
    {pk \in Lookup(rows, url, project, build_id, None) :
        /\ rows[pk].build_type = BUILD_TYPE_STATIC_DELTA
        /\ rows[pk].static_from = from
        /\ rows[pk].static_to = to}

(* create_static_delta_build(build_id): prev is the row the previous-build *)
(* query returns, n the number of the delta build the CI backend created  *)
(* (0: the request failed)                                                *)
CreateStaticDeltaBuild(t, prev, n) ==
    LET b == builds[t.build]
        url == <<b.project, n>>
        found == LookupDelta(builds, url, b.project, n, prev, b.pk)
        rows == IF found = {}
                THEN Append(builds,
                        NewBuild(Len(builds) + 1, url, b.project, n, None, None,
                                 BUILD_TYPE_STATIC_DELTA, prev, b.pk))
                ELSE builds
        s_build == IF found = {} THEN Len(builds) + 1
                   ELSE CHOOSE pk \in found : TRUE
    IN  /\ t.name = "create_static_delta_build" /\ t.pc = "queued"
        /\ prev \in PreviousBuilds(builds, b, {BUILD_TYPE_REGULAR, BUILD_TYPE_OTA})
                    \cup {NullPk}
        /\ prev = NullPk =>
              PreviousBuilds(builds, b, {BUILD_TYPE_REGULAR, BUILD_TYPE_OTA}) = {}
        \* the CI backend numbers a new build above those of the project
        /\ n # 0 => /\ \A pk \in Pks :
                        builds[pk].project = b.project => builds[pk].build_id < n
                    /\ \A i \in 1..Len(deliveries) :
                        deliveries[i].url[1] = b.project => deliveries[i].build_id < n
        /\ IF prev = NullPk \/ n = 0 \/ Cardinality(found) > 1
           THEN \* no previous build, or the task fails
                /\ tasks' = tasks \ {t}
                /\ UNCHANGED <<builds, invocations>>
           ELSE /\ builds' = rows
                /\ tasks' = (tasks \ {t}) \cup
                     Enqueue(<<Sig("poll_static_delta_build", s_build, <<>>, <<>>)>>,
                             t.wf, <<>>, NextId(t.wf))
                /\ UNCHANGED invocations
        /\ UNCHANGED <<cfg, tagged, deliveries, reruns, maxed, jobs, runrows,
                       devVars, signVars, polled, noteVars, api, web, listener>>

(* the jobs schedule_static_delta(build_id) submits *)
StaticDeltaTemplates(from, run_name) ==
    {Template(j, JOB_LAVA, from) : j \in {x \in PlanJobs(run_name) :
        x.is_static_delta_job}}

(* the runs of static_from without the test of its skip_qa *)
StaticDeltaRuns_NoSkip(b) ==
    IF b.static_from = NullPk THEN {}
    ELSE {r \in runrows :
            /\ r.build = b.static_from
            /\ \E d \in DeviceTypes : d.name = r.dev /\ d.project = b.project}

(* the Run rows schedule_static_delta goes through: none without          *)
(* static_from or with a static_from marked skip_qa, else those of         *)
(* static_from whose run name is a device type of the project             *)
StaticDeltaRuns(b) ==
    IF b.static_from = NullPk THEN {}
    ELSE IF builds[b.static_from].skip_qa THEN {}
    ELSE {r \in runrows :
            /\ r.build = b.static_from
            /\ \E d \in DeviceTypes : d.name = r.dev /\ d.project = b.project}

StaticDeltaJobs(t, b, hashes) ==
    UNION { {Job(t, b.static_to, tp, b.static_to, r.dev) :
                tp \in Submitted(StaticDeltaTemplates(b.static_from, r.dev), hashes)}
            : r \in StaticDeltaRuns(b) }

StaticDeltaRunRows(b, hashes) ==
    UNION { {RunRow(tp, r.dev, hashes) :
                tp \in Submitted(StaticDeltaTemplates(b.static_from, r.dev), hashes)}
            : r \in StaticDeltaRuns(b) }

ScheduleStaticDelta(t, hashes) ==
    LET b == builds[t.build]
    IN  /\ t.name = "schedule_static_delta" /\ t.pc = "queued"
        /\ jobs' = jobs \cup StaticDeltaJobs(t, b, hashes)
        /\ runrows' = runrows \cup StaticDeltaRunRows(b, hashes)
        /\ tasks' = tasks \ {t}
        /\ UNCHANGED <<cfg, builds, tagged, invocations, deliveries, reruns, maxed,
                       devVars, signVars, polled, noteVars, api, web, listener>>

(* the poll that goes on after a failed build *)
poll_outcome_FailedPolls(status) ==
    IF status = "PASSED" THEN "schedule" ELSE "poll"

(* the if / elif / else of poll_static_delta_build on the status of the   *)
(* build: schedule the tests, give up, or poll again                      *)
poll_outcome(status) ==
    IF status = "PASSED" THEN "schedule"
    ELSE IF status = "FAILED" THEN "stop"
    ELSE "poll"

NoPoll == [build |-> NullPk, status |-> None, again |-> FALSE]

(* poll_static_delta_build(build_id): status is what the CI backend       *)
(* reports for the delta build                                            *)
PollStaticDeltaBuild(t, status, hashes) ==
    LET b == builds[t.build]
        next == poll_outcome(status)
    IN  /\ t.name = "poll_static_delta_build" /\ t.pc = "queued"
        /\ polled' = [build |-> t.build, status |-> status,
                      again |-> next = "poll"]
        /\ IF next = "schedule"
           THEN /\ jobs' = jobs \cup StaticDeltaJobs(t, b, hashes)
                /\ runrows' = runrows \cup StaticDeltaRunRows(b, hashes)
                /\ tasks' = tasks \ {t}
           ELSE IF next = "stop"
           THEN /\ tasks' = tasks \ {t}
                /\ UNCHANGED <<jobs, runrows>>
           ELSE \* apply_async(countdown=120) of the same poll
                /\ t.retries < MaxPolls
                /\ tasks' = (tasks \ {t}) \cup {[t EXCEPT !.retries = t.retries + 1]}
                /\ UNCHANGED <<jobs, runrows>>
        /\ UNCHANGED <<cfg, builds, tagged, invocations, deliveries, reruns, maxed,
                       devVars, signVars, noteVars, api, web, listener>>

(* ----------------------------- LAVADevice ----------------------------- *)
(* the request_maintenance that forgets the timestamp *)
request_maintenance_NoStamp(dev, accepted) ==
    IF accepted THEN [dev EXCEPT !.controlled_by = CONTROL_PDU] ELSE dev

(* request_maintenance(): accepted says whether the LAVA server answered  *)
(* the GET and the PUT of the device with 200; ota_started = now()        *)
request_maintenance(dev, accepted) ==
    IF accepted
    THEN [dev EXCEPT !.ota_started = 0, !.controlled_by = CONTROL_PDU]
    ELSE dev

request_online(dev, accepted) ==
    IF accepted THEN [dev EXCEPT !.controlled_by = CONTROL_LAVA] ELSE dev

Expired(dev) ==
    /\ dev.controlled_by = CONTROL_PDU
    /\ dev.ota_started # NullTime
    /\ dev.ota_started > OTA_DEADLINE

(* the sweep that evaluates an expired device and leaves it as it is *)
check_ota_completed_KeepsControl(devs) ==
    [d \in DOMAIN devs |->
        IF Expired(devs[d]) THEN devs[d] ELSE devs[d]]

(* check_ota_completed(): every device under PDU control whose OTA began  *)
(* more than the deadline ago is evaluated and released                   *)
check_ota_completed(devs) ==
    [d \in DOMAIN devs |->
        IF Expired(devs[d])
        THEN [devs[d] EXCEPT !.controlled_by = CONTROL_LAVA]
        ELSE devs[d]]

(* ------------------- Project._retrieve_api_request -------------------- *)
API_RETRIES == 3

retry_codes == {429, 500, 502, 503, 504}

(* a call of caller begins: `for n in range(retries)` *)
ApiCall(caller) ==
    /\ api.pc = "idle"
    /\ api' = [api EXCEPT !.caller = caller, !.pc = "request"]

(* one turn of the loop, the request answered by response: the json is    *)
(* returned, the HTTPError raised again, or the loop goes on and, after   *)
(* its last turn, the function ends without a return statement            *)
ApiAttempt(response) ==
    LET n == api.n + 1
        seen == [api EXCEPT !.n = n, !.responses = Append(api.responses, response)]
    IN  /\ api.pc = "request"
        /\ api.n < API_RETRIES
        /\ api' = IF response = 200
                  THEN [seen EXCEPT !.result = "json", !.pc = "returned"]
                  ELSE IF response \in retry_codes
                  THEN IF n < API_RETRIES THEN seen
                       ELSE [seen EXCEPT !.result = None, !.pc = "returned"]
                  ELSE [seen EXCEPT !.result = "raised", !.pc = "raised"]

(* the caller goes on with what it got: each of them calls .get() on the  *)
(* result, an AttributeError on None; an exception ends the task, but     *)
(* fetch_lmp_code_review catches whatever get_api_builds raises and       *)
(* returns                                                                *)
ApiReturn ==
    LET raises == api.pc = "raised" \/ api.result = None
    IN  /\ api.pc \in {"returned", "raised"}
        /\ api' = IF ~raises THEN [api EXCEPT !.pc = "done"]
                  ELSE IF api.caller = "fetch_lmp_code_review"
                  THEN [api EXCEPT !.result = "caught", !.pc = "done"]
                  ELSE IF api.result = None
                  THEN [api EXCEPT !.result = "AttributeError", !.pc = "failed"]
                  ELSE [api EXCEPT !.pc = "failed"]

(* ------------------- process_testjob_notification --------------------- *)
TestjobEvent(job, state, device) == [job |-> job, state |-> state, device |-> device]

LavaJob(job_id) == CHOOSE j \in LavaJobs : j.job_id = job_id

(* the LAVADevice of that name, project and requested device type whose   *)
(* auto_register_name holds the job's boot prompt, or None                *)
_find_lava_device_AnyPrompt(lava_job, device_name, project) ==
    LET lava_devices == {d \in LavaDevices :
                            /\ d.name = device_name
                            /\ d.project = project
                            /\ d.device_type = lava_job.requested_device_type}
    IN  IF lava_devices = {} THEN None
        ELSE (CHOOSE d \in lava_devices : TRUE).name

_find_lava_device(lava_job, device_name, project) ==
    LET lava_devices == {d \in LavaDevices :
                            /\ d.name = device_name
                            /\ d.project = project
                            /\ d.device_type = lava_job.requested_device_type}
        found == {d \in lava_devices :
                     /\ d.auto_register_name # <<>>
                     /\ Contains(d.auto_register_name, lava_job.prompt)}
    IN  IF found = {} THEN None
        ELSE (CHOOSE d \in found : TRUE).name

(* the calls with the EL2GO ones also for a LAVA job that runs *)
BackendCalls_Provision(job_type, state) ==
    IF job_type \in {JOB_LAVA, JOB_EL2GO} /\ state = "Running"
    THEN <<"remove_from_factory", "remove_from_el2go", "add_to_el2go">>
    ELSE IF job_type = JOB_EL2GO /\ state = "Finished"
    THEN <<"remove_from_el2go">>
    ELSE <<>>

(* the backend calls a notification ends with, by job type and state *)
BackendCalls(job_type, state) ==
    IF job_type = JOB_LAVA /\ state = "Running"
    THEN <<"remove_from_factory">>
    ELSE IF job_type = JOB_EL2GO /\ state = "Running"
    THEN <<"remove_from_factory", "remove_from_el2go", "add_to_el2go">>
    ELSE IF job_type = JOB_EL2GO /\ state = "Finished"
    THEN <<"remove_from_el2go">>
    ELSE <<>>

(* the listener sends the event to a worker: process_testjob_notification.delay *)
Notify(ev) ==
    /\ Len(received) < MaxNotifications
    /\ received' = Append(received, ev)
    /\ notifications' = notifications \cup
          {[id |-> Len(received) + 1, ev |-> ev, pc |-> "get",
            lava_job |-> [status |-> None, device |-> None], device |-> None, todo |-> <<>>]}
    /\ UNCHANGED <<lavajobs, calls, fleet, el2go>>

Step(t, u) == notifications' = (notifications \ {t}) \cup {u}

Ends(t) == notifications' = notifications \ {t}

(* LAVAJob.objects.get(job_id=job_id); DoesNotExist ends the task *)
NoteGet(t) ==
    /\ t.pc = "get"
    /\ IF t.ev.job \in JobIds
       THEN Step(t, [t EXCEPT !.lava_job = lavajobs[t.ev.job], !.pc = "status"])
       ELSE Ends(t)
    /\ UNCHANGED <<lavajobs, received, calls, fleet, el2go>>

(* lava_job.status = job_state; lava_job.save() writes the whole row *)
NoteStatus(t) ==
    LET row == [t.lava_job EXCEPT !.status = t.ev.state]
    IN  /\ t.pc = "status"
        /\ lavajobs' = [lavajobs EXCEPT ![t.ev.job] = row]
        /\ Step(t, [t EXCEPT !.lava_job = row, !.pc = "device"])
        /\ UNCHANGED <<received, calls, fleet, el2go>>

(* the device is looked up; none found ends the task, else it is saved on *)
(* the job and the calls of the job type and state follow                 *)
NoteDevice(t) ==
    LET job == LavaJob(t.ev.job)
        found == _find_lava_device(job, t.ev.device, job.project)
        row == [t.lava_job EXCEPT !.device = found]
        todo == BackendCalls(job.job_type, t.ev.state)
    IN  /\ t.pc = "device"
        /\ IF t.ev.device = None \/ found = None
           THEN Ends(t) /\ UNCHANGED lavajobs
           ELSE /\ lavajobs' = [lavajobs EXCEPT ![t.ev.job] = row]
                /\ IF todo = <<>> THEN Ends(t)
                   ELSE Step(t, [t EXCEPT !.lava_job = row, !.device = found,
                                          !.todo = todo, !.pc = "calls"])
        /\ UNCHANGED <<received, calls, fleet, el2go>>

(* what a call leaves in the factory and in EL2GO *)
FleetAfter(op, d, registered) ==
    IF op = "remove_from_factory" THEN registered \ {d} ELSE registered

El2goAfter(op, d, listed) ==
    IF op = "remove_from_el2go" THEN listed \ {d}
    ELSE IF op = "add_to_el2go" THEN listed \cup {d}
    ELSE listed

(* the next call of the task: remove_from_factory, remove_from_el2go or   *)
(* add_to_el2go on the device found                                       *)
NoteCall(t) ==
    LET op == Head(t.todo)
    IN  /\ t.pc = "calls"
        /\ calls' = calls \cup {[id |-> t.id, op |-> op, device |-> t.device]}
        /\ fleet' = FleetAfter(op, t.device, fleet)
        /\ el2go' = El2goAfter(op, t.device, el2go)
        /\ IF Tail(t.todo) = <<>> THEN Ends(t)
           ELSE Step(t, [t EXCEPT !.todo = Tail(t.todo)])
        /\ UNCHANGED <<lavajobs, received>>

(* ---------------------------- initial state --------------------------- *)
Settings(default_branch, restart, on_callback, testing_tag, first_only, merge_only) ==
    [default_branch |-> default_branch, default_meta_branch |-> "master",
     restart_failed_builds |-> restart,
     apply_testing_tag_on_callback |-> on_callback,
     testing_tag |-> testing_tag,
     apply_tag_to_first_build_only |-> first_only,
     test_on_merge_only |-> merge_only,
     privkey |-> None, keyid |-> None]

DeviceNames == {"device1", "device2"}

NewDevice == [controlled_by |-> CONTROL_LAVA, ota_started |-> NullTime]

(* the jobs as submitted, the devices registered, nothing under way *)
InitQuiet ==
    /\ polled = NoPoll
    /\ lavajobs = [j \in JobIds |-> [status |-> None, device |-> None]]
    /\ notifications = {}
    /\ received = <<>>
    /\ calls = {}
    /\ fleet = {d.name : d \in LavaDevices}
    /\ el2go = {}
    /\ api = ([caller |-> None, responses |-> <<>>, n |-> 0, result |-> None,
               pc |-> "idle"])
    /\ web = [callbacks |-> <<>>, log |-> <<>>, merges |-> <<>>, pending |-> <<>>]
    \* ListenerManager.__init__: no process yet; no LAVABackend row
    /\ listener = [backends |-> {}, processes |-> {}, passes |-> 0]

(* an empty database with the projects configured as c *)
InitWith(c) ==
    /\ cfg = [p \in Projects |-> c]
    /\ builds = <<>>
    /\ tagged = {}
    /\ tasks = {}
    /\ invocations = 0
    /\ deliveries = <<>>
    /\ reruns = {}
    /\ maxed = {}
    /\ jobs = {}
    /\ runrows = {}
    /\ devices = [d \in DeviceNames |-> NewDevice]
    /\ ops = 0
    \* factories without targets
    /\ targets = [p \in Projects |-> Meta(1, <<>>, None, None)]
    /\ signed = {}
    /\ InitQuiet

Run(name, url, status) == [name |-> name, url |-> url, status |-> status]

Event(status, build_id, url, trigger_name, runs) ==
    [status |-> status, build_id |-> build_id, url |-> url,
     trigger_name |-> trigger_name, runs |-> runs]

(* ------------------ specification: failed callbacks ------------------- *)
InitRestart ==
    \E restart \in BOOLEAN :
        InitWith(Settings("main", restart, FALSE, None, FALSE, FALSE))

RestartStart == \E t \in tasks : LoadBuild(t)

RestartFinish ==
    \E t \in tasks : \E ok \in SUBSET (1..3) : RestartRuns(t, ok)

NextRestart ==
    \/ (/\ Len(deliveries) < MaxFailedDeliveries
        /\ \E e \in ({Event("FAILED", 1, <<"p1", 73>>, <<"platform", "main">>, (<< Run(<<"name3">>, <<"run", 3>>, "PASSED"),
                                                                                   Run(<<"name2">>, <<"run", 2>>, "FAILED"),
                                                                                   Run(<<"name1">>, <<"run", 1>>, "FAILED") >>))}) : process_jobserv_webhook(Signature(e), e, builds))
    \/ RestartStart
    \/ RestartFinish

SpecRestart == InitRestart /\ [][NextRestart]_vars

(* C3: in every reachable state every Build's restart_counter is at most  *)
(* MAX_BUILD_RESTARTS, whatever the interleaving of failed callbacks.     *)
C3_RestartCounterBounded ==
    \A pk \in Pks : builds[pk].restart_counter <= MAX_BUILD_RESTARTS

(* a Build that was restarted up to the maximum *)
C3_Witness ==
    \E pk \in Pks : builds[pk].restart_counter = MAX_BUILD_RESTARTS

(* C4: a re-run request is never issued for a callback that was received  *)
(* after the Build's restart_counter had reached MAX_BUILD_RESTARTS.      *)
C4_NoRerunAfterMax ==
    \A r \in reruns : \A m \in maxed : r.build = m.build => r.wf <= m.at

(* C13: once the restart_failed_runs tasks of a Build have returned, its  *)
(* restart_counter is the number of failed callbacks for which a re-run   *)
(* was requested and accepted: each of them has raised it by one.         *)
C13_OncePerCallback ==
    \A pk \in Pks :
        (\A t \in tasks : t.build # pk) =>
            builds[pk].restart_counter =
                Cardinality({r.wf : r \in {x \in reruns : x.build = pk /\ x.ok}})

(* --------------------- specification: tag window ---------------------- *)
(* a database of finished builds, none tagged yet: three of one branch    *)
(* (the second one the upgrade/rollback build of the first) and one of    *)
(* another branch                                                         *)
Finished(pk, project, build_id, tag, type, reason) ==
    [NewBuild(pk, <<project, build_id>>, project, build_id, tag, "PASSED",
              type, NullPk, NullPk)
        EXCEPT !.commit_id = "sha", !.build_reason = reason]

TagBuilds ==
    << Finished(1, "p1", 1, "main", BUILD_TYPE_REGULAR, "commit message"),
       Finished(2, "p1", 2, "main", BUILD_TYPE_OTA, FIO_UPGRADE_ROLLBACK_MESSAGE),
       Finished(3, "p1", 3, "main", BUILD_TYPE_REGULAR, "commit message"),
       Finished(4, "p1", 4, "devel", BUILD_TYPE_CONTAINERS, "commit message") >>

InitTag ==
    /\ \E on_callback \in BOOLEAN, tag \in {None, "testing"}, first \in BOOLEAN :
          cfg = [p \in Projects |->
                    Settings("main", TRUE, on_callback, tag, first, FALSE)]
    /\ builds = TagBuilds
    /\ tagged = {}
    /\ tasks = {}
    /\ invocations = 0
    /\ deliveries = <<>>
    /\ reruns = {}
    /\ maxed = {}
    /\ jobs = {}
    /\ runrows = {}
    /\ devices = [d \in DeviceNames |-> NewDevice]
    /\ ops = 0
    \* factories without targets
    /\ targets = [p \in Projects |-> Meta(1, <<>>, None, None)]
    /\ signed = {}
    /\ InitQuiet

(* tag_build_runs is sent for a build: by the chain of a callback, by     *)
(* _update_build_reason, or by schedule_project_test_round                *)
TagInvoke ==
    /\ invocations < MaxTagInvocations
    /\ \E pk \in Pks :
          tasks' = tasks \cup Enqueue(<<Sig("tag_build_runs", pk, <<>>, <<>>)>>,
                                      0, <<>>, NextId(0))
    /\ invocations' = invocations + 1
    /\ UNCHANGED <<cfg, builds, tagged, deliveries, reruns, maxed, jobs,
                   runrows, devVars, signVars, polled, noteVars, api, web, listener>>

TagStart == \E t \in tasks : TagBegin(t)

TagUntag == \E t \in tasks : \E o \in t.old : TagRemove(t, o)

TagFinish == \E t \in tasks : TagAdd(t)

NextTag ==
    \/ TagInvoke
    \/ TagStart
    \/ TagUntag
    \/ TagFinish

SpecTag == InitTag /\ [][NextTag]_vars

(* C1: at every point of every execution at most two Builds of a project  *)
(* hold the project's testing tag.                                        *)
C1_AtMostTwoTagged ==
    \A p \in Projects :
        Cardinality({pk \in tagged : builds[pk].project = p}) <= 2

IndexOf(rows, tg, p) ==
    LET pks == {pk \in 1..Len(rows) : rows[pk].project = p}
    IN  Meta(1, [n \in {rows[pk].build_id : pk \in pks} |->
                    IF \E pk \in pks \cap tg : rows[pk].build_id = n THEN 1 ELSE 0],
             "keyid0", "ed25519")

(* the builds of the tag window, the first one tagged *)
InitSign ==
    /\ \E key \in ({None, "ed25519", "rsa", "ec"}), keyid \in ({None, "keyid1"}) :
          cfg = [p \in Projects |->
                    [Settings("main", TRUE, TRUE, "testing", FALSE, FALSE)
                        EXCEPT !.privkey = key, !.keyid = keyid]]
    /\ builds = TagBuilds
    /\ tagged = {1}
    /\ tasks = {}
    /\ invocations = 0
    /\ deliveries = <<>>
    /\ reruns = {}
    /\ maxed = {}
    /\ jobs = {}
    /\ runrows = {}
    /\ devices = [d \in DeviceNames |-> NewDevice]
    /\ ops = 0
    /\ targets = [p \in Projects |-> IndexOf(TagBuilds, {1}, p)]
    /\ signed = {}
    /\ InitQuiet

NextSign ==
    \/ (invocations < MaxSignInvocations /\ TagInvoke)
    \/ TagStart
    \/ TagUntag
    \/ TagFinish
    \/ (\E t \in tasks : \E pk \in Pks, add \in BOOLEAN, got \in BOOLEAN :
            ChangeTagFetch(t, [pk |-> pk, add |-> add], got))
    \/ (\E t \in tasks : \E accepted \in BOOLEAN : ChangeTagPublish(t, accepted))

SpecSign == InitSign /\ [][NextSign]_vars

(* C14: at no time are two tagging tasks of one project between their     *)
(* fetch and their publish of the targets.json.                           *)
C14_TaggingSerialized ==
    \A p \in Projects :
        Cardinality({t \in tasks : /\ t.pc = "fetched"
                                   /\ builds[t.what.pk].project = p}) <= 1

(* C16: for a project whose private key or key id is missing, or whose    *)
(* key is neither an Ed25519 nor an RSA key, no targets.json is signed    *)
(* and the targets.json of its factory stays as it was.                   *)
C16_NoKeyNoPublish ==
    \A p \in Projects :
        (\/ cfg[p].privkey = None
         \/ cfg[p].keyid = None
         \/ cfg[p].privkey \notin ({"ed25519", "rsa"})) =>
            /\ \A x \in signed : x.project # p
            /\ targets[p] = IndexOf(TagBuilds, {1}, p)

(* tag_build_runs has tagged a build of a project with an unsupported     *)
(* key, after _change_tag had fetched the targets.json                    *)
C16_Witness ==
    /\ cfg["p1"].privkey = "ec" /\ cfg["p1"].keyid # None
    /\ 3 \in tagged
    /\ 1 \notin tagged

(* C30: the testing tag is at most once in the tag list of every target   *)
(* of the published targets.json, however often a Build was tagged, so    *)
(* that one removal takes it off the target.                              *)
C30_TagAtMostOnce ==
    \A p \in Projects : \A n \in DOMAIN targets[p].tags :
        targets[p].tags[n] <= 1

(* C24: the relation between Builds and the testing tag changes only in   *)
(* a step that publishes a signed targets.json: a tag change that is not  *)
(* published (key or key id missing, nothing fetched, unsupported key,    *)
(* PUT rejected) leaves the relation as it was.                           *)
C24_TaggedOnlyIfPublished ==
    [][tagged' # tagged =>
          \E p \in Projects :
              /\ targets'[p] # targets[p]
              /\ \E x \in signed' \ signed : x.project = p]_vars

(* C31: the targets.json documents signed and PUT for a project have     *)
(* strictly increasing versions, each derived from the one before: no two *)
(* different documents of a project carry the same version.               *)
C31_VersionsIncrease ==
    \A x \in signed : \A y \in signed :
        (x.project = y.project /\ x.doc.version = y.doc.version) => x = y

(* ------------------ specification: callbacks of all kinds ------------- *)
InitIngest == InitWith(Settings("main", TRUE, TRUE, "testing", FALSE, FALSE))

(* the commit is in the repository, with an ordinary message or, for the  *)
(* commit "skipsha", one with a skip-qa marker, or the repository does    *)
(* not know the revision                                                  *)
IngestGit(commit_id) ==
    {Git("commit", FALSE, commit_id = "skipsha", FALSE),
     Git("badname", FALSE, FALSE, FALSE)}

(* the artifact store has the ostree hash of every run, of none, or of    *)
(* every run but the one the OTA job asks for, and the hash it has is the *)
(* same at every request or another one at a later request                *)
IngestHashes ==
    {[n \in TemplateNames |-> h] : h \in ({None, "h1", "h2"})}
        \cup {[n \in TemplateNames |-> IF n = "ota" THEN None ELSE "h1"]}

NextIngest ==
    \/ (/\ Len(deliveries) < MaxDeliveries
        /\ \E e \in ({ Event("PASSED", 1, <<"p1", 1>>, <<"platform", "main">>,
                             << Run(<<"devA">>, <<"run", 1>>, "PASSED") >>),
                       Event("FAILED", 1, <<"p1", 1>>, <<"platform", "main">>,
                             << Run(<<"devA">>, <<"run", 1>>, "FAILED") >>),
                       Event("PASSED", 2, <<"p1", 2>>, <<"containers", "main">>,
                             << Run(<<"build", "aarch64">>, <<"run", 2>>, "PASSED") >>),
                       Event("PASSED", 3, <<"p1", 3>>, <<"generate", "static", "deltas">>,
                             << Run(<<"delta">>, <<"run", 3>>, "PASSED") >>),
                       Event("PASSED", 2, <<"p1", 2>>, <<"platform", "devel">>,
                             << Run(<<"devA">>, <<"run", 2>>, "PASSED") >>),
                       Event("PASSED", 4, <<"p1", 4>>, <<"build", "release">>,
                             << Run(<<"devA">>, <<"run", 0>>, "PASSED") >>) }) : process_jobserv_webhook(Signature(e), e, builds))
    \/ RestartStart
    \/ RestartFinish
    \/ (\E t \in tasks : \E ok \in BOOLEAN, out \in IngestGit(GIT_SHA(t.run_url)) :
            UpdateCommitId(t, ok, out))
    \/ (\E t \in tasks : \E out \in IngestGit(t.snap.commit_id) :
            UpdateBuildReason(t, out))
    \/ TagStart
    \/ TagFinish
    \/ (\E t \in tasks : \E hashes \in IngestHashes, prev \in 0..Len(builds) :
            CreateBuildRun(t, hashes, prev))
    \/ (\E t \in tasks : \E hashes \in IngestHashes : ScheduleStaticDelta(t, hashes))

SpecIngest == InitIngest /\ [][NextIngest]_vars

(* the callbacks for which the webhook gets or creates a Build *)
CreatesBuild(e) ==
    ProjectOfUrl(e.url) \in Projects /\ IsBuildTrigger(e.trigger_name)

(* C2: however often a callback was delivered, there is exactly one Build *)
(* row under its (url, project, build number, branch) key.                *)
C2_IdempotentIngest ==
    \A i \in 1..Len(deliveries) :
        CreatesBuild(deliveries[i]) =>
            Cardinality(Lookup(builds, deliveries[i].url,
                               ProjectOfUrl(deliveries[i].url),
                               deliveries[i].build_id,
                               build_branch(deliveries[i].trigger_name))) = 1

(* the same build-completion event has been delivered twice *)
C2_Witness ==
    \E i, j \in 1..Len(deliveries) :
        /\ i < j
        /\ deliveries[i] = deliveries[j]
        /\ CreatesBuild(deliveries[i])

(* C5: every job create_build_run submits for a Build is submitted with   *)
(* the Build's commit id stored.                                          *)
C5_CommitBeforeJobs ==
    \A j \in jobs : j.by = "create_build_run" => j.of_commit # None

(* a job was submitted by create_build_run *)
C5_Witness ==
    \E j \in jobs : j.by = "create_build_run"

(* C9: a callback whose status is not PASSED sends restart_failed_runs    *)
(* and nothing else: no task of such a delivery is a commit-id, tagging   *)
(* or dispatch task, and no job stems from it.                            *)
C9_FailedOnlyRestarts ==
    /\ \A t \in tasks :
          deliveries[t.wf].status # "PASSED" => t.name = "restart_failed_runs"
    /\ \A j \in jobs : deliveries[j.wf].status = "PASSED"

(* the restart coordinator has handled a failed callback *)
C9_Witness ==
    \E r \in reruns : deliveries[r.wf].status # "PASSED"

(* the jobs and tasks that stem from the callback of a containers build *)
OfContainers(wf) == Contains(deliveries[wf].trigger_name, W_CONTAINERS)

(* C29: a create_build_run task that runs while the build_reason of its   *)
(* Build is unset submits no job, sends update_build_reason and is queued *)
(* again: it is never given up, so that it submits its jobs once the      *)
(* commit id and the reason have been resolved.                           *)
C29_RetriesUntilReason ==
    [][\A t \in tasks :
          (/\ t.name = "create_build_run"
           /\ t \notin tasks'
           /\ builds[t.build].build_reason = None)
          => /\ jobs' = jobs
             /\ \E u \in tasks' \ tasks :
                   u.name = "update_build_reason" /\ u.build = t.build
             /\ [t EXCEPT !.retries = t.retries + 1] \in tasks']_vars

(* C25: over all deliveries of the callbacks of a Build, at most one job   *)
(* is submitted per Build, device type and test-job template.             *)
C25_NoDuplicateJobs ==
    \A j1 \in jobs : \A j2 \in jobs :
        (/\ j1.of = j2.of
         /\ j1.dev = j2.dev
         /\ j1.name = j2.name
         /\ j1.job_type = j2.job_type) => j1.wf = j2.wf

(* C34: a job whose OSTree hash is missing is skipped and the others of   *)
(* the fan-out go on: no Run is stored without a hash, and every job      *)
(* submitted by create_build_run has the Run of its build and device type *)
(* with the hash that was found.                                          *)
C34_MissingHashSkipped ==
    /\ \A r \in runrows : r.ostree_hash # None
    /\ \A j \in jobs :
          \E r \in runrows : /\ r.build = j.build
                             /\ r.dev = j.dev
                             /\ r.ostree_hash # None

(* a create_build_run of a Containers build found no hash for its OTA job *)
(* and one for its downgrade job: the downgrade job alone was submitted   *)
C34_Witness ==
    \E j \in jobs :
        /\ j.by = "create_build_run"
        /\ j.name = "downgrade"
        /\ \A o \in jobs : o.wf = j.wf => o.name # "ota"

(* C35: create_build_run for an OTA or Containers build that has no       *)
(* earlier Regular or OTA build on its branch ends without an error and   *)
(* submits no OTA, downgrade or assemble-image job.                       *)
C35_NoPredecessorNoError ==
    [][\A t \in tasks :
          (/\ t.name = "create_build_run" /\ t.pc = "queued"
           /\ t \notin tasks'
           /\ builds[t.build].build_type \in {BUILD_TYPE_OTA, BUILD_TYPE_CONTAINERS}
           /\ PreviousBuilds(builds, builds[t.build],
                             {BUILD_TYPE_REGULAR, BUILD_TYPE_OTA}) = {})
          => /\ \A u \in tasks' \ tasks : u.pc # "raised"
             /\ \A j \in jobs' \ jobs : j.name \notin {"ota", "downgrade", "assemble"}]_vars

(* C10 as stated: no test job is dispatched for a containers build.       *)
C10_ContainersNoJobs ==
    \A j \in jobs : ~OfContainers(j.wf)

ArchMatches(wf, dev) ==
    \E i \in 1..Len(deliveries[wf].runs) : \E d \in DeviceTypes :
        /\ d.name = dev
        /\ d.project = ProjectOfUrl(deliveries[wf].url)
        /\ Len(deliveries[wf].runs[i].name) > 1
        /\ d.architecture = ArchOf(deliveries[wf].runs[i].name)

(* C10 amended: a passed containers build goes through the same chain as  *)
(* a platform build (commit id, tagging, create_build_run); its           *)
(* create_build_run tasks are for the device types whose architecture a   *)
(* run of the callback names, and the jobs dispatched for it are the OTA  *)
(* and assemble jobs of those device types.                               *)
C10_ContainersJobs ==
    /\ \A t \in tasks : OfContainers(t.wf) =>
          /\ t.name \in {"update_build_commit_id", "tag_build_runs",
                          "create_build_run", "update_build_reason"}
          /\ t.name = "create_build_run" => ArchMatches(t.wf, t.run)
    /\ \A j \in jobs : OfContainers(j.wf) =>
          /\ j.by = "create_build_run"
          /\ ArchMatches(j.wf, j.dev)
          /\ \E x \in TestJobs :
                /\ x.dev = j.dev /\ x.name = j.name
                /\ x.is_ota_job \/ x.is_assemble_image_job

(* a job was dispatched for a containers build *)
C10_Witness ==
    \E j \in jobs : OfContainers(j.wf)

(* -------------------- specification: static deltas -------------------- *)
(* two projects, each with a tested platform build and a platform build   *)
(* whose callback has just been received; the first project also has a    *)
(* containers build between the two; the tested build of the second       *)
(* project is marked skip-QA                                              *)
Received(pk, project, build_id, tag, type) ==
    NewBuild(pk, <<project, build_id>>, project, build_id, tag, "PASSED",
             type, NullPk, NullPk)

DeltaBuilds ==
    << Finished(1, "p1", 1, "main", BUILD_TYPE_REGULAR, "commit message"),
       Finished(2, "p1", 2, "main", BUILD_TYPE_CONTAINERS, "commit message"),
       Received(3, "p1", 3, "main", BUILD_TYPE_REGULAR),
       [Finished(4, "p2", 2, "main", BUILD_TYPE_REGULAR, "commit message")
            EXCEPT !.skip_qa = TRUE],
       Received(5, "p2", 3, "main", BUILD_TYPE_REGULAR) >>

InitDelta ==
    /\ cfg = [p \in Projects |->
                Settings("main", TRUE, FALSE, None, FALSE, FALSE)]
    /\ builds = DeltaBuilds
    /\ tagged = {}
    /\ tasks = {}
    /\ invocations = 0
    /\ deliveries = <<>>
    /\ reruns = {}
    /\ maxed = {}
    /\ jobs = {}
    /\ runrows = {[build |-> pk, dev |-> <<"devA">>, ostree_hash |-> "h1"] :
                      pk \in {1, 4}}
    /\ devices = [d \in DeviceNames |-> NewDevice]
    /\ ops = 0
    \* factories without targets
    /\ targets = [p \in Projects |-> Meta(1, <<>>, None, None)]
    /\ signed = {}
    /\ InitQuiet

(* the artifact store has the ostree hash of every run *)
DeltaHashes == {[n \in TemplateNames |-> "h1"]}

NextDelta ==
    (* the chain of a callback sends update_build_commit_id for a platform    *)
    (* build that has no commit id yet                                        *)
    \/ (/\ invocations < MaxDeltaInvocations
        /\ \E pk \in {k \in Pks : /\ builds[k].commit_id = None
                                   /\ builds[k].build_type # BUILD_TYPE_STATIC_DELTA
                                   /\ builds[k].tag = cfg[builds[k].project].default_branch} :
              tasks' = tasks \cup
                  Enqueue(<<Sig("update_build_commit_id", pk, <<>>, <<"run", 1>>)>>,
                          0, <<>>, NextId(0))
        /\ invocations' = invocations + 1
        /\ UNCHANGED <<cfg, builds, tagged, deliveries, reruns, maxed, jobs,
                       runrows, devVars, signVars, polled, noteVars, api, web, listener>>)
    \/ RestartStart
    \/ (\E t \in tasks : \E ok \in BOOLEAN, out \in ({Git("commit", TRUE, FALSE, FALSE), Git("commit", FALSE, FALSE, FALSE)}) :
            UpdateCommitId(t, ok, out))
    \/ (\E t \in tasks : \E prev \in 0..Len(builds), n \in 0..MaxCiBuildId :
            CreateStaticDeltaBuild(t, prev, n))
    \/ (\E t \in tasks : \E status \in ({"PASSED", "FAILED", "RUNNING"}), hashes \in DeltaHashes :
            PollStaticDeltaBuild(t, status, hashes))
    (* jobserv reports a static-delta build that conductor asked for *)
    \/ (/\ Len(deliveries) < MaxDeliveries
        /\ \E pk \in {k \in Pks : builds[k].build_type = BUILD_TYPE_STATIC_DELTA} :
              LET e == Event("PASSED", builds[pk].build_id, builds[pk].url,
                             <<"generate", "static", "deltas">>,
                             << Run(<<"delta">>, <<"run", 3>>, "PASSED") >>)
              IN  process_jobserv_webhook(Signature(e), e, builds))
    \/ (/\ Len(deliveries) < MaxDeliveries
        /\ \E e \in ({ Event("PASSED", 1, <<"p1", 1>>, <<"platform", "devel">>,
                             << Run(<<"devA">>, <<"run", 1>>, "PASSED") >>) }) :
              /\ \A i \in 1..Len(deliveries) : deliveries[i] # e
              /\ process_jobserv_webhook(Signature(e), e, builds))
    \/ (\E t \in tasks : \E hashes \in DeltaHashes : ScheduleStaticDelta(t, hashes))

SpecDelta == InitDelta /\ [][NextDelta]_vars

(* C8: the static_from and static_to of every static-delta Build are      *)
(* Builds of type Regular or OTA of the project of the static-delta       *)
(* Build, static_from with the smaller build_id.                          *)
C8_DeltaEndpoints ==
    \A pk \in Pks :
        (builds[pk].build_type = BUILD_TYPE_STATIC_DELTA
            /\ builds[pk].static_from # NullPk) =>
        /\ builds[pk].static_to # NullPk
        /\ LET from == builds[builds[pk].static_from]
               to == builds[builds[pk].static_to]
           IN  /\ from.build_type \in {BUILD_TYPE_REGULAR, BUILD_TYPE_OTA}
               /\ to.build_type \in {BUILD_TYPE_REGULAR, BUILD_TYPE_OTA}
               /\ from.project = builds[pk].project
               /\ to.project = builds[pk].project
               /\ from.build_id < to.build_id

(* create_static_delta_build has made a static-delta Build *)
C8_Witness ==
    \E pk \in Pks :
        /\ builds[pk].build_type = BUILD_TYPE_STATIC_DELTA
        /\ builds[pk].static_from # NullPk

(* C37: every static-delta job is submitted for a device type that had a  *)
(* Run on the static_from of a static-delta Build, is bound to that       *)
(* static_from with the static_to as OTA target, and none is submitted    *)
(* for a static-delta Build without static_from or whose static_from is   *)
(* marked skip-QA.                                                        *)
C37_DeltaJobsFromOrigin ==
    [][\A j \in jobs' \ jobs :
          j.by \in {"poll_static_delta_build", "schedule_static_delta"} =>
             /\ \E t \in tasks \ tasks' :
                   /\ t.wf = j.wf /\ t.name = j.by
                   /\ builds[t.build].static_from = j.build
                   /\ builds[t.build].static_to = j.ota_target
                   /\ builds[t.build].static_to = j.of
                   /\ j.build # NullPk
             /\ ~builds[j.build].skip_qa
             /\ \E r \in runrows : r.build = j.build /\ r.dev = j.dev]_vars

(* the static delta of the first project was tested: its jobs are bound  *)
(* to the tested build 1, with the new build 3 as OTA target              *)
C37_Witness ==
    \E j \in jobs :
        /\ j.by \in {"poll_static_delta_build", "schedule_static_delta"}
        /\ j.build = 1
        /\ j.ota_target = 3

(* C28: the static-delta test jobs of a static-delta build (the jobs for  *)
(* its pair of builds, per device type and template) are submitted at     *)
(* most once, over all polls and callbacks that see the build PASSED.     *)
C28_DeltaJobsOnce ==
    LET delta == {j \in jobs : j.by \in {"poll_static_delta_build",
                                         "schedule_static_delta"}}
    IN  \A j1 \in delta : \A j2 \in delta :
            (/\ j1.of = j2.of
             /\ j1.build = j2.build
             /\ j1.dev = j2.dev
             /\ j1.name = j2.name) => (j1.by = j2.by /\ j1.wf = j2.wf)

C11_OneRowPerUrl ==
    \A i, j \in Pks :
        (/\ builds[i].project = builds[j].project
         /\ builds[i].build_id = builds[j].build_id
         /\ builds[i].url = builds[j].url) => i = j

(* C11 amended: there is at most one Build row per (project, build_id,    *)
(* url, tag); a callback that repeats the number and url of a build under *)
(* another branch makes a second row.                                     *)
C11_OneRowPerKey ==
    \A i, j \in Pks :
        (/\ builds[i].project = builds[j].project
         /\ builds[i].build_id = builds[j].build_id
         /\ builds[i].url = builds[j].url
         /\ builds[i].tag = builds[j].tag) => i = j

(* a build whose number and url came with two branches, and a static-delta *)
(* Build that create_static_delta_build made and a callback then reported *)
C11_Witness ==
    /\ \E i, j \in Pks :
          /\ i # j
          /\ builds[i].url = builds[j].url
          /\ builds[i].tag # builds[j].tag
    /\ \E i \in 1..Len(deliveries) : \E pk \in Pks :
          /\ builds[pk].build_type = BUILD_TYPE_STATIC_DELTA
          /\ builds[pk].static_from # NullPk
          /\ deliveries[i].url = builds[pk].url

(* C12 as stated: no step changes the build_type of an existing Build.    *)
C12_TypeNeverChanges ==
    [][\A pk \in Pks : builds'[pk].build_type = builds[pk].build_type]_vars

(* C12 amended: a step leaves the url, project, build_id, tag and         *)
(* static-delta ends of every Build as they are, and changes a build_type *)
(* only when a task saves its loaded copy of the Build: to OTA, which     *)
(* _update_build_reason sets for an upgrade/rollback commit message, or   *)
(* to the build_type that copy was loaded with.                           *)
C12_TypeChangesToOta ==
    [][\A pk \in Pks :
          /\ builds'[pk].url = builds[pk].url
          /\ builds'[pk].project = builds[pk].project
          /\ builds'[pk].build_id = builds[pk].build_id
          /\ builds'[pk].tag = builds[pk].tag
          /\ builds'[pk].static_from = builds[pk].static_from
          /\ builds'[pk].static_to = builds[pk].static_to
          /\ builds'[pk].build_type # builds[pk].build_type =>
                \E t \in tasks \ tasks' :
                    /\ t.build = pk /\ t.pc = "loaded"
                    /\ builds'[pk].build_type \in
                            {BUILD_TYPE_OTA, t.snap.build_type}]_vars

(* a Build created as Regular that _update_build_reason made an OTA one *)
C12_Witness ==
    \E pk \in DOMAIN DeltaBuilds :
        /\ DeltaBuilds[pk].build_type = BUILD_TYPE_REGULAR
        /\ builds[pk].build_type = BUILD_TYPE_OTA
        /\ builds[pk].build_reason = FIO_UPGRADE_ROLLBACK_MESSAGE

(* --------------------- specification: factory API --------------------- *)
(* one project with the settings of a new Project row, nothing queued *)
InitIdle == InitWith(Settings("main", TRUE, FALSE, None, FALSE, FALSE))

apiRest == <<cfg, builds, tagged, tasks, invocations, deliveries, reruns, maxed,
             jobs, runrows, devVars, signVars, polled, noteVars, web,
             listener>>

NextApi ==
    \/ ((\E caller \in ({"fetch_lmp_code_review", "poll_static_delta_build",
                         "create_static_delta_build"}) : ApiCall(caller)) /\ UNCHANGED apiRest)
    \/ ((\E response \in ({0, 200, 404, 429, 500, 502, 503, 504}) : ApiAttempt(response)) /\ UNCHANGED apiRest)
    \/ (ApiReturn /\ UNCHANGED apiRest)

SpecApi == InitIdle /\ [][NextApi]_vars

WebHeaders(bodies, colon) ==
    { Header(FALSE, FALSE, hmac(Secret("p1"), b)) : b \in bodies }
    \cup { Header(TRUE, c, hmac(Secret(p), b)) :
             c \in {colon, FALSE}, p \in Projects \cup {"p9"}, b \in bodies }

(* jobserv callbacks of builds of p1, one for each kind of trigger name    *)
(* (the three that make a Build, another one, one without a branch), and  *)
(* of a project conductor does not have; GitHub pushes to the manifest    *)
(* repository of the projects and to another one                          *)
NextWeb ==
    \/ (/\ Len(web.log) < MaxRequests
        /\ LET labels == <<<<"containers", "main">>, <<"platform", "main">>,
                           <<"generate", "static", "deltas">>,
                           <<"build", "release">>, <<"platform">>,
                           <<"platform", "devel", "main">>>>
               events == { Event("PASSED", n, <<"p1", n>>, labels[n],
                                 << Run(<<"devA">>, <<"run", n>>, "PASSED") >>) :
                              n \in DOMAIN labels }
                         \cup { Event("PASSED", 1, <<"p9", 1>>, <<"platform", "main">>,
                                      << Run(<<"devA">>, <<"run", 1>>, "PASSED") >>) }
           IN  \E e \in events : \E header \in WebHeaders({e}, TRUE) :
                  process_jobserv_webhook(header, e, builds))
    \/ (/\ Len(web.log) < MaxRequests
        /\ \E repo \in {"example/repository", "example/other"} :
              \E header \in WebHeaders({[repository |-> repo]}, FALSE) :
                 process_github_webhook(header, [repository |-> repo]))

SpecWeb == InitIdle /\ [][NextWeb]_vars

C22_UnsignedRejected ==
    [][LET r == web'.log[Len(web'.log)]
       IN  (/\ Len(web'.log) > Len(web.log)
            /\ r.endpoint = "jobserv"
            /\ \/ ~r.header.present
               \/ r.header.digest # hmac(Secret(ProjectOfUrl(r.body.url)), r.body))
           => /\ r.code = 403
              /\ web'.callbacks = web.callbacks
              /\ builds' = builds
              /\ tasks' = tasks]_vars

(* C23: a GitHub webhook whose X-Hub-Signature-256 header is missing or  *)
(* is the signature under the secret of no project of the repository is   *)
(* answered 403 and sends no merge.                                       *)
C23_GithubUnauthorized ==
    [][LET r == web'.log[Len(web'.log)]
       IN  (/\ Len(web'.log) > Len(web.log)
            /\ r.endpoint = "github"
            /\ \/ ~r.header.present
               \/ \A p \in Projects :
                     \/ r.body.repository # "example/repository"
                     \/ r.header # Header(TRUE, FALSE, hmac(Secret(p), r.body)))
           => /\ r.code = 403
              /\ web'.merges = web.merges]_vars

(* C33: a PASSED callback of a Regular (platform) build whose branch is   *)
(* not the default branch of the project sends no task: no commit         *)
(* resolution, no tagging, no job dispatch.                               *)
C33_DefaultBranchOnly ==
    [][LET r == web'.log[Len(web'.log)]
           label == r.body.trigger_name
           p == ProjectOfUrl(r.body.url)
       IN  (/\ Len(web'.log) > Len(web.log)
            /\ r.endpoint = "jobserv"
            /\ r.header = Signature(r.body)
            /\ p \in Projects
            /\ r.body.status = "PASSED"
            /\ Len(label) > 1
            /\ build_type(label) = BUILD_TYPE_REGULAR
            \* build_branch = trigger_name.split("-")[1]
            /\ label[2] # cfg[p].default_branch)
           => tasks' = tasks]_vars

(* -------------- specification: a build with [skip qa] ----------------- *)
(* the callback of build 5, whose commit message carries a skip-qa        *)
(* marker, and the tasks of its workflow                                  *)
NextSkip ==
    \/ (/\ Len(deliveries) < MaxDeliveries
        /\ LET e == Event("PASSED", 5, <<"p1", 5>>, <<"platform", "main">>,
                          << Run(<<"devA">>, <<"run", 5>>, "PASSED") >>)
           IN  process_jobserv_webhook(Signature(e), e, builds))
    \/ RestartStart
    \/ (\E t \in tasks : \E ok \in BOOLEAN, out \in IngestGit(GIT_SHA(t.run_url)) :
            UpdateCommitId(t, ok, out))
    \/ (\E t \in tasks : \E out \in IngestGit(t.snap.commit_id) :
            UpdateBuildReason(t, out))
    \/ TagStart
    \/ TagFinish
    \/ (\E t \in tasks : \E hashes \in IngestHashes, prev \in 0..Len(builds) :
            CreateBuildRun(t, hashes, prev))

SpecSkip == InitIngest /\ [][NextSkip]_vars

(* C27: a Build whose commit message carries a skip-qa marker is never    *)
(* related to the testing tag and no test job is ever submitted for it.   *)
C27_SkipQaNeverTested ==
    \A pk \in Pks :
        (\E i \in 1..Len(deliveries) :
            /\ deliveries[i].url = builds[pk].url
            /\ \E r \in 1..Len(deliveries[i].runs) :
                  GIT_SHA(deliveries[i].runs[r].url) = "skipsha")
        => /\ pk \notin tagged
           /\ \A j \in jobs : j.of # pk /\ j.build # pk

(* C36: there is at most one Run row per Build and device type, whatever  *)
(* OSTree hash the compilations of its jobs have found.                   *)
C36_OneRunPerPairing ==
    \A r1 \in runrows : \A r2 \in runrows :
        (r1.build = r2.build /\ r1.dev = r2.dev) => r1 = r2

(* ---------------- specification: concurrent requests ------------------ *)
(* two web workers: a request is taken up to the lookup of get_or_create  *)
(* and is finished in a later step, other requests in between             *)
NextRace ==
    \/ (/\ Len(web.log) + Len(web.pending) < MaxRequests
        /\ \E n \in 1..2, status \in {"PASSED", "FAILED"},
                 label \in {<<"platform", "main">>, <<"containers", "main">>} :
              LET e == Event(status, n, <<"p1", n>>, label,
                             << Run(<<"devA">>, <<"run", n>>, status) >>)
              IN  web' = [web EXCEPT !.pending = Append(@,
                            [header |-> Signature(e), body |-> e, seen |-> builds])]
        /\ UNCHANGED <<cfg, builds, tagged, tasks, invocations, deliveries, reruns, maxed,
                      jobs, runrows, devVars, signVars, polled, noteVars, api, listener>>)
    \/ (\E k \in 1..Len(web.pending) :
            process_jobserv_webhook(web.pending[k].header, web.pending[k].body,
                                    web.pending[k].seen))

SpecRace == InitIdle /\ [][NextRace]_vars

(* C26: once the requests are answered, there is exactly one Build row    *)
(* for every callback that was accepted, also when the same callback was  *)
(* handled by two workers at the same time.                               *)
C26_OneRowForConcurrent ==
    web.pending = <<>> =>
        \A i \in 1..Len(web.log) :
            web.log[i].code \in {200, 201} =>
                Cardinality(Lookup(builds, web.log[i].body.url,
                                   ProjectOfUrl(web.log[i].body.url),
                                   web.log[i].body.build_id,
                                   build_branch(web.log[i].body.trigger_name))) = 1

(* ------------------- specification: notifications --------------------- *)
noteRest == <<cfg, builds, tagged, tasks, invocations, deliveries, reruns, maxed,
              jobs, runrows, devVars, signVars, polled, api, web, listener>>

NextNotify ==
    \/ ((\E ev \in ({ TestjobEvent(2, "Running", "device1"), TestjobEvent(2, "Finished", "device1"),
                      TestjobEvent(3, "Running", "device1"), TestjobEvent(1, "Running", "device1"),
                      TestjobEvent(9, "Running", "device1"), TestjobEvent(2, "Running", "device2"),
                      TestjobEvent(2, "Running", "device3"), TestjobEvent(2, "Running", "device9") }) : Notify(ev)) /\ UNCHANGED noteRest)
    \/ ((\E t \in notifications : NoteGet(t)) /\ UNCHANGED noteRest)
    \/ ((\E t \in notifications : NoteStatus(t)) /\ UNCHANGED noteRest)
    \/ ((\E t \in notifications : NoteDevice(t)) /\ UNCHANGED noteRest)
    \/ ((\E t \in notifications : NoteCall(t)) /\ UNCHANGED noteRest)

SpecNotify == InitIdle /\ [][NextNotify]_vars

(* the i-th notification has been processed to its end *)
Processed(i) == i \in 1..Len(received) /\ \A t \in notifications : t.id # i

(* the event names a job of the database and a device that has a          *)
(* LAVADevice row of the job's project and device type, registering       *)
(* under the name in the job's prompt                                     *)
Resolved(ev) ==
    /\ ev.job \in JobIds
    /\ \E d \in LavaDevices :
          /\ d.name = ev.device
          /\ d.project = LavaJob(ev.job).project
          /\ d.device_type = LavaJob(ev.job).requested_device_type
          /\ Contains(d.auto_register_name, LavaJob(ev.job).prompt)

(* C20: no call to the device fleet or to EL2GO is ever made for a        *)
(* notification whose job id is unknown or whose device name resolves to  *)
(* no device, the factory and EL2GO change by the calls of resolved       *)
(* notifications only, and no Device record changes.                      *)
C20_UnknownDropped ==
    /\ \A c \in calls : Resolved(received[c.id])
    /\ \A d \in {r.name : r \in LavaDevices} :
          /\ d \notin fleet =>
                \E c \in calls : c.device = d /\ c.op = "remove_from_factory"
          /\ d \in el2go =>
                \E c \in calls : c.device = d /\ c.op = "add_to_el2go"
    /\ \A d \in DeviceNames : devices[d] = NewDevice

(* a notification of an unknown job and one of a job whose device is not  *)
(* found have both been processed to the end                              *)
C20_Witness ==
    \E i, j \in 1..Len(received) :
        /\ received[i].job \notin JobIds
        /\ received[j].job \in JobIds
        /\ ~Resolved(received[j])
        /\ Processed(i)
        /\ Processed(j)

C19_OtaRunningStarts ==
    \A i \in 1..Len(received) :
        (/\ Processed(i)
         /\ Resolved(received[i])
         /\ LavaJob(received[i].job).job_type = JOB_OTA
         /\ received[i].state = "Running"
         /\ received[i].device \in DeviceNames)
        => /\ devices[received[i].device].controlled_by = CONTROL_PDU
           /\ devices[received[i].device].ota_started # NullTime

(* the calls of a list made one after the other on device d *)
RECURSIVE AfterCalls(_, _, _)
AfterCalls(s, todo, d) ==
    IF todo = <<>> THEN s
    ELSE AfterCalls([s EXCEPT !.fleet = FleetAfter(Head(todo), d, s.fleet),
                              !.el2go = El2goAfter(Head(todo), d, s.el2go)],
                    Tail(todo), d)

(* process_testjob_notification run from its first line to its last      *)
(* with no other task in between                                          *)
Handled(s, ev) ==
    IF ev.job \notin JobIds THEN s
    ELSE LET job == LavaJob(ev.job)
             found == _find_lava_device(job, ev.device, job.project)
             saved == [s EXCEPT !.lavajobs[ev.job].status = ev.state]
         IN  IF ev.device = None \/ found = None THEN saved
             ELSE AfterCalls([saved EXCEPT !.lavajobs[ev.job].device = found],
                             BackendCalls(job.job_type, ev.state), found)

(* the notifications received, handled one at a time in the given order *)
RECURSIVE Serial(_, _)
Serial(order, k) ==
    IF k = 0
    THEN [lavajobs |-> [j \in JobIds |-> [status |-> None, device |-> None]],
          fleet |-> {d.name : d \in LavaDevices}, el2go |-> {}]
    ELSE Handled(Serial(order, k - 1), received[order[k]])

(* C15: once the notifications received, all of one device, have been     *)
(* processed, the LAVAJob rows, the factory and EL2GO are as handling     *)
(* the notifications one at a time, in some order, leaves them.           *)
C15_SerialOutcome ==
    (/\ notifications = {}
     /\ \A i, j \in 1..Len(received) : received[i].device = received[j].device)
    => \E order \in {f \in [1..Len(received) -> 1..Len(received)] :
                        \A i, j \in 1..Len(received) : f[i] = f[j] => i = j} :
          Serial(order, Len(received)) =
              [lavajobs |-> lavajobs, fleet |-> fleet, el2go |-> el2go]

(* ---------------------- specification: devices ------------------------ *)
buildVars == <<cfg, builds, tagged, tasks, invocations, deliveries, reruns, maxed,
               jobs, runrows, signVars, polled, lavajobs, notifications,
               received, calls, fleet, el2go, api, web, listener>>

(* ten minutes pass *)
Tick ==
    /\ devices' = [d \in DeviceNames |->
          IF \/ devices[d].ota_started = NullTime
             \/ devices[d].ota_started > OTA_DEADLINE
          THEN devices[d]
          ELSE [devices[d] EXCEPT !.ota_started = @ + 1]]
    /\ UNCHANGED <<ops, buildVars>>

Sweep ==
    /\ devices' = check_ota_completed(devices)
    /\ UNCHANGED <<ops, buildVars>>

NextDevice ==
    \/ (/\ ops < MaxDeviceOps
        /\ \E d \in DeviceNames, accepted \in BOOLEAN :
              devices' = [devices EXCEPT ![d] = request_maintenance(devices[d], accepted)]
        /\ ops' = ops + 1
        /\ UNCHANGED buildVars)
    \/ (/\ ops < MaxDeviceOps
        /\ \E d \in DeviceNames, accepted \in BOOLEAN :
              devices' = [devices EXCEPT ![d] = request_online(devices[d], accepted)]
        /\ ops' = ops + 1
        /\ UNCHANGED buildVars)
    \/ Tick
    \/ Sweep

SpecDevice == InitIdle /\ [][NextDevice]_vars

(* time passes, and celery beat runs the sweep every ten minutes *)
SpecDeviceLive == SpecDevice /\ WF_vars(Tick) /\ WF_vars(Sweep)

(* C6 as stated: ota_started is non-null exactly when the device is under *)
(* PDU control.                                                           *)
C6_StampIffPdu ==
    \A d \in DeviceNames :
        (devices[d].ota_started # NullTime) <=> (devices[d].controlled_by = CONTROL_PDU)

(* C6 amended: a device under PDU control has its ota_started set.        *)
C6_PduHasStamp ==
    \A d \in DeviceNames :
        devices[d].controlled_by = CONTROL_PDU => devices[d].ota_started # NullTime

(* a device that went to maintenance, while another came back online      *)
(* with the timestamp of its maintenance request                          *)
C6_Witness ==
    \E d, e \in DeviceNames :
        /\ devices[d].controlled_by = CONTROL_PDU
        /\ devices[e].controlled_by = CONTROL_LAVA
        /\ devices[e].ota_started # NullTime

(* C7: a device under PDU control is back under LAVA control some time    *)
(* later, by the sweep alone.                                             *)
C7_OtaReclaimed ==
    \A d \in DeviceNames :
        (devices[d].controlled_by = CONTROL_PDU)
            ~> (devices[d].controlled_by = CONTROL_LAVA)

(* a device past the deadline and still under PDU control *)
C7_Witness ==
    \E d \in DeviceNames : Expired(devices[d])

(* ------------------- specification: the listeners --------------------- *)
(* the setting that makes every .delay() run the task in the caller *)
CELERY_TASK_ALWAYS_EAGER_Always(broker_url) == TRUE

(* CELERY_TASK_ALWAYS_EAGER = CELERY_BROKER_URL is None *)
CELERY_TASK_ALWAYS_EAGER(broker_url) == broker_url = None

(* The listener manager and its listener processes. An entry of           *)
(* __processes__ is (backend, alive, broker_url, waiting): the process    *)
(* runs or has exited, the CELERY_BROKER_URL it was started with, and the *)
(* task its socket loop is inside the .delay() of (0: none).              *)
NextListen ==
    (* a LAVABackend row is created or deleted *)
    \/ (/\ \E b \in 1..2 :
              listener' = [listener EXCEPT
                  !.backends = IF b \in @ THEN @ \ {b} ELSE @ \cup {b}]
        /\ UNCHANGED <<cfg, builds, tagged, tasks, invocations, deliveries, reruns,
                       maxed, jobs, runrows, devVars, signVars, polled, noteVars,
                       api, web>>)
    (* keep_listeners_running(): a listener is started for every backend   *)
    (* that has no entry, and the entries of deleted backends are stopped  *)
    (* and popped; an entry whose process has exited is a Popen object,    *)
    (* which is true, and stays                                            *)
    \/ (/\ listener.passes < MaxPasses
        /\ \E url \in {None, "amqp"} :
              listener' = [listener EXCEPT
                  !.processes =
                      {p \in @ : p.backend \in listener.backends} \cup
                      {[backend |-> b, alive |-> TRUE, broker_url |-> url,
                        waiting |-> 0] :
                          b \in {x \in listener.backends :
                                    \A p \in listener.processes : p.backend # x}},
                  !.passes = @ + 1]
        /\ UNCHANGED <<cfg, builds, tagged, tasks, invocations, deliveries, reruns,
                       maxed, jobs, runrows, devVars, signVars, polled, noteVars,
                       api, web>>)
    (* a listener process exits: no websocket_url, a signal, an exception  *)
    (* other than aiohttp.ClientError and ValueError                       *)
    \/ (/\ \E p \in listener.processes :
              /\ p.alive /\ p.waiting = 0
              /\ listener' = [listener EXCEPT
                    !.processes = (@ \ {p}) \cup {[p EXCEPT !.alive = FALSE]}]
        /\ UNCHANGED <<cfg, builds, tagged, tasks, invocations, deliveries, reruns,
                       maxed, jobs, runrows, devVars, signVars, polled, noteVars,
                       api, web>>)
    (* listen_for_events: a .testjob message;                              *)
    (* process_testjob_notification.delay(data) returns at once with a     *)
    (* broker and after the task without one                               *)
    \/ (/\ \E p \in listener.processes :
              /\ p.alive /\ p.waiting = 0
              /\ \E ev \in {TestjobEvent(1, "Running", "device1"),
                             TestjobEvent(2, "Finished", "device1"),
                             TestjobEvent(9, "Running", "device1")} : Notify(ev)
              /\ listener' = [listener EXCEPT
                    !.processes = (@ \ {p}) \cup
                        {[p EXCEPT !.waiting =
                            IF CELERY_TASK_ALWAYS_EAGER(p.broker_url)
                            THEN Len(received) + 1 ELSE 0]}]
        /\ UNCHANGED <<cfg, builds, tagged, tasks, invocations, deliveries, reruns,
                       maxed, jobs, runrows, devVars, signVars, polled, api, web>>)
    (* listen_for_events: a .device message; process_device_notification   *)
    (* is `pass`, so its .delay() leaves nothing to wait for               *)
    \/ (/\ \E p \in listener.processes : p.alive /\ p.waiting = 0
        /\ Len(received) < MaxNotifications
        /\ received' = Append(received, TestjobEvent(0, None, "device1"))
        /\ UNCHANGED <<cfg, builds, tagged, tasks, invocations, deliveries, reruns,
                       maxed, jobs, runrows, devVars, signVars, polled, lavajobs,
                       notifications, calls, fleet, el2go, api, web, listener>>)
    (* the .delay() of a listener without broker returns: its task is done *)
    \/ (/\ \E p \in listener.processes :
              /\ p.waiting # 0
              /\ \A t \in notifications : t.id # p.waiting
              /\ listener' = [listener EXCEPT
                    !.processes = (@ \ {p}) \cup {[p EXCEPT !.waiting = 0]}]
        /\ UNCHANGED <<cfg, builds, tagged, tasks, invocations, deliveries, reruns,
                       maxed, jobs, runrows, devVars, signVars, polled, noteVars,
                       api, web>>)
    (* the tasks, run by a worker or, without broker, inside the .delay()  *)
    \/ ((\E t \in notifications : NoteGet(t)) /\ UNCHANGED noteRest)
    \/ ((\E t \in notifications : NoteStatus(t)) /\ UNCHANGED noteRest)
    \/ ((\E t \in notifications : NoteDevice(t)) /\ UNCHANGED noteRest)
    \/ ((\E t \in notifications : NoteCall(t)) /\ UNCHANGED noteRest)

SpecListen == InitIdle /\ [][NextListen]_vars

(* C39 as stated: the socket loop of no listener is ever inside the       *)
(* .delay() of a task that is being processed: every message is only      *)
(* enqueued.                                                              *)
C39_NeverInline ==
    \A p \in listener.processes : p.waiting = 0

(* C39: a listener started with a broker only enqueues: the step that     *)
(* takes a message changes no LAVAJob, makes no backend call and leaves   *)
(* the socket loop free; only a listener started without                  *)
(* CELERY_BROKER_URL is ever inside the .delay() of a task.               *)
C39_EnqueuedWithBroker ==
    [][/\ \A p \in listener'.processes : p.waiting # 0 => p.broker_url = None
       /\ Len(received') > Len(received) =>
             /\ lavajobs' = lavajobs
             /\ calls' = calls
             /\ fleet' = fleet /\ el2go' = el2go
             /\ \A t \in notifications' \ notifications : t.pc = "get"]_vars

(* a listener with a broker has taken two messages, the task of the       *)
(* first not yet begun                                                    *)
C39_Witness ==
    /\ \E p \in listener.processes : p.alive /\ p.broker_url # None
    /\ \A p \in listener.processes : p.broker_url # None
    /\ Len(received) = 2
    /\ \E t \in notifications : t.id = 1 /\ t.pc = "get"

(* C40: after every pass of keep_listeners_running every LAVABackend of   *)
(* the database has a running listener process and the manager holds no   *)
(* process of a backend that is no longer in the database.                *)
C40_ListenersKeptRunning ==
    [][listener'.passes # listener.passes =>
          /\ \A b \in listener'.backends :
                \E p \in listener'.processes : p.backend = b /\ p.alive
          /\ \A p \in listener'.processes : p.backend \in listener'.backends]_vars

====
